---- MODULE Spec2Model ----
(***************************************************************************)
(* Model of jira-gram's comment-reply flow: the process-wide               *)
(* pending_replies map (bot/handlers.py), the button_callback and          *)
(* handle_reply_message coroutines as the asyncio event loop interleaves   *)
(* them, the handler registration of main.py, and the encoding cascade of  *)
(* JiraClient.reply_to_comment (jira/client.py).                           *)
(*                                                                         *)
(* Python strings are sequences of tokens: a message text is a sequence    *)
(* of one-character tokens, an f-string is the concatenation of its        *)
(* literal pieces and the interpolated strings.  None is Python's None.    *)
(*                                                                         *)
(* The event loop is single threaded: a coroutine runs without             *)
(* interruption from one suspension point (an await that does network      *)
(* I/O) to the next, and the Jira client's calls are synchronous, so each  *)
(* action below is the code between two suspension points.                 *)
(***************************************************************************)
EXTENDS Integers, Sequences, FiniteSets, TLC

\* Python's None, where a string may stand: a token no string holds.
None == <<"<None>">>

\* Number of webhook requests the event loop holds in flight at once.
MaxInFlight == 2

Tasks == 1..MaxInFlight

----------------------------------------------------------------------------
(* Python string helpers *)

IsSpace(ch) == ch \in {" ", "\t", "\n"}

LowerChar(ch) ==
    CASE ch = "A" -> "a"
      [] ch = "C" -> "c"
      [] ch = "E" -> "e"
      [] ch = "K" -> "k"
      [] ch = "L" -> "l"
      [] ch = "N" -> "n"
      [] ch = "O" -> "o"
      [] ch = "R" -> "r"
      [] ch = "S" -> "s"
      [] ch = "T" -> "t"
      [] OTHER -> ch

\* str.lower()
lower(s) == [i \in 1..Len(s) |-> LowerChar(s[i])]

RECURSIVE lstrip(_)
lstrip(s) == IF s # <<>> /\ IsSpace(Head(s)) THEN lstrip(Tail(s)) ELSE s

RECURSIVE rstrip(_)
rstrip(s) == IF s # <<>> /\ IsSpace(s[Len(s)]) THEN rstrip(SubSeq(s, 1, Len(s) - 1)) ELSE s

\* str.strip()
strip(s) == rstrip(lstrip(s))

\* Python truthiness of an Optional[str]
Truthy(s) == s # None /\ s # <<>>

\* Whether the characters of token tok start with those of token prefix,
\* for the callback prefixes: only "view_comment_" starts with another one.
TokenStartsWith(tok, prefix) == tok = prefix \/ (tok = "view_comment_" /\ prefix = "view_")

\* str.startswith(prefix), prefix a single token
startswith(s, prefix) == s # <<>> /\ TokenStartsWith(Head(s), prefix)

\* s[:n]
prefix_of(s, n) == SubSeq(s, 1, IF Len(s) < n THEN Len(s) ELSE n)

\* The order of the tokens of created strings, as str compares them
CreatedOrder == <<"2024-01-01", "2024-01-02", "2024-01-03">>

TokenRank(tok) == CHOOSE i \in 1..Len(CreatedOrder) : CreatedOrder[i] = tok

\* a < b for two strings, token by token
RECURSIVE str_less(_, _)
str_less(a, b) ==
    IF b = <<>> THEN FALSE
    ELSE IF a = <<>> THEN TRUE
    ELSE IF Head(a) = Head(b) THEN str_less(Tail(a), Tail(b))
    ELSE TokenRank(Head(a)) < TokenRank(Head(b))

\* str.replace(old, ""), old a single token: every occurrence is removed
RECURSIVE remove_all(_, _)
remove_all(s, old) ==
    IF s = <<>> THEN <<>>
    ELSE IF Head(s) = old THEN remove_all(Tail(s), old)
    ELSE <<Head(s)>> \o remove_all(Tail(s), old)

\* sep in s
contains(s, sep) == \E i \in 1..Len(s) : s[i] = sep

\* index of the first occurrence of sep in s (s contains sep)
find(s, sep) == CHOOSE i \in 1..Len(s) : s[i] = sep /\ \A j \in 1..(i - 1) : s[j] # sep

\* str.split(sep, 1)
\* str.upper(), token by token
UpperChar(ch) ==
    CASE ch = "proj-1" -> "PROJ-1"
      [] ch = "proj-2" -> "PROJ-2"
      [] ch = "q" -> "Q"
      [] OTHER -> ch

upper(s) == [i \in 1..Len(s) |-> UpperChar(s[i])]

\* str.split(): the words between runs of white space
RECURSIVE split(_)
split(s) ==
    LET t == lstrip(s)
        end == IF \E i \in 1..Len(t) : IsSpace(t[i])
               THEN (CHOOSE i \in 1..Len(t) : IsSpace(t[i]) /\ \A j \in 1..(i - 1) : ~IsSpace(t[j])) - 1
               ELSE Len(t)
    IN IF t = <<>> THEN <<>>
       ELSE <<SubSeq(t, 1, end)>> \o split(SubSeq(t, end + 1, Len(t)))

\* sep.join(words)
RECURSIVE join(_, _)
join(words, sep) ==
    IF words = <<>> THEN <<>>
    ELSE IF Len(words) = 1 THEN words[1]
    ELSE words[1] \o <<sep>> \o join(Tail(words), sep)

\* re.match(r"^[A-Z]+-\d+$", issue_key), on the one-token keys of the model
IssueKeyTokens == {"PROJ-1", "PROJ-2", "PROJ-123"}

matches_issue_key(issue_key) == Len(issue_key) = 1 /\ issue_key[1] \in IssueKeyTokens

split_once(s, sep) ==
    IF contains(s, sep)
    THEN <<SubSeq(s, 1, find(s, sep) - 1), SubSeq(s, find(s, sep) + 1, Len(s))>>
    ELSE <<s>>

----------------------------------------------------------------------------
(* The Jira backend *)

\* settings.jira_url
jira_url == <<"https://jira.example">>

\* The comments of the backend.  An author without accountId attribute
\* has accountId None (getattr(comment.author, "accountId", None)).
Comment10000 == [id |-> <<"10000">>, displayName |-> <<"Ann">>, accountId |-> <<"acct-1">>, body |-> <<"o", "n", "e">>, created |-> <<"2024-01-01", "T09:00">>]

Comment10001 == [id |-> <<"10001">>, displayName |-> <<"Cy">>, accountId |-> <<"acct-3">>, body |-> <<"t", "w", "o">>, created |-> <<"2024-01-03", "T09:00">>]

Comment20000 == [id |-> <<"20000">>, displayName |-> <<"Bob">>, accountId |-> None, body |-> <<"t", "r", "e", "s">>, created |-> <<"2024-01-02", "T09:00">>]

\* issue.fields.comment.comments as the backend holds them
JiraComments(issue_key) ==
    CASE issue_key = <<"PROJ-1">> -> <<Comment10000, Comment10001>>
      [] issue_key = <<"PROJ-2">> -> <<Comment20000>>
      [] OTHER -> <<>>

\* self.jira.issue(issue_key) as get_issue projects it
JiraIssue(issue_key) ==
    [key |-> issue_key, summary |-> <<"Summary of ">> \o issue_key,
     url |-> jira_url \o <<"/browse/">> \o issue_key]

\* What self.jira.issue(issue_key, fields="comment") can do: raise, or
\* return the issue's comments.  An unknown issue key always raises.
FetchOutcomes(issue_key) ==
    IF issue_key \in {<<"PROJ-1">>, <<"PROJ-2">>} THEN {"raise", "ok"} ELSE {"raise"}

\* JiraClient.get_issue: the sequence holding the issue, empty for None
get_issue(issue_key, outcome) ==
    IF outcome = "raise" \/ FetchOutcomes(issue_key) = {"raise"} THEN <<>> ELSE <<JiraIssue(issue_key)>>

\* JiraClient.search_issues: [] when self.jira.search_issues raises
search_issues(jql, outcome) ==
    IF outcome = "raise" THEN <<>> ELSE <<JiraIssue(<<"PROJ-1">>)>>

\* JiraClient.add_comment: the call of self.jira.add_comment it makes
add_comment(issue_key, comment_text, raised) ==
    [kind |-> "add_comment", issue_key |-> issue_key, name |-> "comment", body |-> comment_text, raised |-> raised]

\* JiraClient.add_comment: True when self.jira.add_comment returned,
\* False when it raised
add_comment_returns(issue_key, comment_text, raised) ==
    ~add_comment(issue_key, comment_text, raised).raised

\* JiraClient.update_issue: False when self.jira.issue or issue.update
\* raises, True otherwise
update_issue(issue_key, fields, outcome) ==
    IF outcome = "raise" \/ FetchOutcomes(issue_key) = {"raise"} THEN FALSE ELSE TRUE

\* JiraClient.get_issue_comments
get_issue_comments(issue_key, outcome) ==
    IF outcome = "raise" \/ FetchOutcomes(issue_key) = {"raise"} THEN <<>>
    ELSE [i \in 1..Len(JiraComments(issue_key)) |->
            [id |-> JiraComments(issue_key)[i].id,
             author |-> JiraComments(issue_key)[i].displayName,
             author_account_id |-> JiraComments(issue_key)[i].accountId,
             body |-> JiraComments(issue_key)[i].body,
             created |-> JiraComments(issue_key)[i].created]]

----------------------------------------------------------------------------
(* JiraClient.reply_to_comment *)

comment_url(issue_key, parent_comment_id) ==
    jira_url \o <<"/browse/">> \o issue_key \o <<"?focusedCommentId=">> \o parent_comment_id
    \o <<"&page=com.atlassian.jira.plugin.system.issuetabpanels:comment-tab">>
    \o <<"#comment-">> \o parent_comment_id

TextNode(text) == [type |-> "text", text |-> text, href |-> None, id |-> None]

LinkNode(text, href) == [type |-> "text", text |-> text, href |-> href, id |-> None]

MentionNode(id, text) == [type |-> "mention", text |-> text, href |-> None, id |-> id]

\* Mutant of reply_content: only the first character is kept.
reply_content_truncated(reply_text) == <<TextNode(prefix_of(reply_text, 1))>>

reply_content(reply_text) == <<TextNode(reply_text)>>

adf_body_with_mention(issue_key, parent_comment_id, reply_text, mention_account_id, mention_display_name) ==
    [type |-> "doc",
     content |-> <<TextNode(<<"Replying to ">>),
                   LinkNode(<<"comment #">> \o parent_comment_id, comment_url(issue_key, parent_comment_id)),
                   TextNode(<<" and mentioning ">>),
                   MentionNode(mention_account_id, <<"@">> \o mention_display_name),
                   TextNode(<<". ">>)>> \o reply_content(reply_text)]

adf_body_with_link(issue_key, parent_comment_id, reply_text) ==
    [type |-> "doc",
     content |-> <<TextNode(<<"Replying to ">>),
                   LinkNode(<<"comment #">> \o parent_comment_id, comment_url(issue_key, parent_comment_id)),
                   TextNode(<<". ">>)>> \o reply_content(reply_text)]

plain_text_with_mention(reply_text, mention_account_id) ==
    <<"[~accountid:{">> \o mention_account_id \o <<"}] ">> \o reply_text

Attempt1(issue_key, parent_comment_id, reply_text, mention_account_id, mention_display_name) ==
    IF Truthy(mention_account_id) /\ Truthy(mention_display_name)
    THEN <<[name |-> "ADF with mention and link",
            body |-> adf_body_with_mention(issue_key, parent_comment_id, reply_text, mention_account_id, mention_display_name)]>>
    ELSE <<>>

Attempt2(issue_key, parent_comment_id, reply_text) ==
    <<[name |-> "ADF with link only", body |-> adf_body_with_link(issue_key, parent_comment_id, reply_text)]>>

\* Mutant of Attempt3: appended whether or not there is an account id.
Attempt3_always(reply_text, mention_account_id) ==
    <<[name |-> "plain text with mention", body |-> plain_text_with_mention(reply_text, mention_account_id)]>>

Attempt3(reply_text, mention_account_id) ==
    IF Truthy(mention_account_id)
    THEN <<[name |-> "plain text with mention", body |-> plain_text_with_mention(reply_text, mention_account_id)]>>
    ELSE <<>>

Attempt4(reply_text) == <<[name |-> "plain comment", body |-> reply_text]>>

\* Mutant of build_attempts: the plain comment is appended first.
build_attempts_plain_first(issue_key, parent_comment_id, reply_text, mention_account_id, mention_display_name) ==
    Attempt4(reply_text)
    \o Attempt1(issue_key, parent_comment_id, reply_text, mention_account_id, mention_display_name)
    \o Attempt2(issue_key, parent_comment_id, reply_text)
    \o Attempt3(reply_text, mention_account_id)

\* The attempts list built by lines 171-238, in append order.
build_attempts(issue_key, parent_comment_id, reply_text, mention_account_id, mention_display_name) ==
    Attempt1(issue_key, parent_comment_id, reply_text, mention_account_id, mention_display_name)
    \o Attempt2(issue_key, parent_comment_id, reply_text)
    \o Attempt3(reply_text, mention_account_id)
    \o Attempt4(reply_text)

\* The state of the for loop of lines 240-265: the attempts, the index of
\* the next one, the self.jira.add_comment calls made so far, and the
\* value returned once it has returned.
LoopStart(issue_key, attempts) ==
    [issue_key |-> issue_key, attempts |-> attempts, i |-> 1, calls |-> <<>>, returned |-> FALSE, result |-> FALSE]

AddCommentCall(loop, raised) ==
    [kind |-> "add_comment", issue_key |-> loop.issue_key, name |-> loop.attempts[loop.i].name,
     body |-> loop.attempts[loop.i].body, raised |-> raised]

\* Mutant of loop_step: the first exception ends the loop with False.
loop_step_abort(loop, raised) ==
    IF loop.i > Len(loop.attempts)
    THEN [loop EXCEPT !.returned = TRUE, !.result = FALSE]
    ELSE IF raised
    THEN [loop EXCEPT !.calls = Append(@, AddCommentCall(loop, TRUE)), !.returned = TRUE, !.result = FALSE]
    ELSE [loop EXCEPT !.calls = Append(@, AddCommentCall(loop, FALSE)), !.returned = TRUE, !.result = TRUE]

\* Mutant of loop_step: an accepted call does not end the loop; every
\* attempt is made and True is returned if one was accepted.
loop_step_keep_going(loop, raised) ==
    IF loop.i > Len(loop.attempts)
    THEN [loop EXCEPT !.returned = TRUE]
    ELSE [loop EXCEPT !.calls = Append(@, AddCommentCall(loop, raised)), !.i = @ + 1,
                      !.result = @ \/ ~raised]

\* Mutant of loop_step: an attempt that raised is made again.
loop_step_retry(loop, raised) ==
    IF loop.i > Len(loop.attempts)
    THEN [loop EXCEPT !.returned = TRUE, !.result = FALSE]
    ELSE IF raised
    THEN [loop EXCEPT !.calls = Append(@, AddCommentCall(loop, TRUE))]
    ELSE [loop EXCEPT !.calls = Append(@, AddCommentCall(loop, FALSE)), !.returned = TRUE, !.result = TRUE]

\* One iteration of the loop: the call of add_comment either returns
\* (return True) or raises (continue); past the last attempt, return False.
loop_step(loop, raised) ==
    IF loop.i > Len(loop.attempts)
    THEN [loop EXCEPT !.returned = TRUE, !.result = FALSE]
    ELSE IF raised
    THEN [loop EXCEPT !.calls = Append(@, AddCommentCall(loop, TRUE)), !.i = @ + 1]
    ELSE [loop EXCEPT !.calls = Append(@, AddCommentCall(loop, FALSE)), !.returned = TRUE, !.result = TRUE]

\* The whole loop, the k-th call raising iff raises[k].
RECURSIVE run_loop(_, _)
run_loop(loop, raises) ==
    IF loop.returned THEN loop
    ELSE run_loop(loop_step(loop, loop.i <= Len(loop.attempts) /\ raises[loop.i]), raises)

----------------------------------------------------------------------------
(* The state *)

VARIABLES
    pending_replies,  \* handlers.pending_replies: user id -> pending reply
    tasks,            \* the webhook requests in flight, one coroutine each
    allowed_user_ids, \* settings.allowed_user_ids, read once at start
    consumed,         \* history: per user, how many messages consumed the
                      \* pending reply the user stored last
    engine            \* one call of reply_to_comment on its own (SpecEngine)

vars == <<pending_replies, tasks, allowed_user_ids, consumed, engine>>

\* effective_user.id of the updates received
Users == {1, 2}

\* The ALLOWED_USERS settings the service is started with: none, or user 1
AllowLists == {{}, {1}}

\* effective_chat of the updates received
Chats == {10, 20}

\* update.message.text of the messages received, with whether Telegram
\* marked a bot_command entity at offset 0 (filters.COMMAND); None is a
\* message without text.  A text starting with "/" arrives with the entity
\* when a Telegram client sent it, and without when the update comes from
\* a caller that sets no entities (the handler called directly, as the
\* tests do, or a POST to the webhook, which checks no sender).
MessageInputs ==
    { [text |-> <<" ", "o", "k">>, command |-> FALSE],
      [text |-> <<"c", "a", "n", "c", "e", "l">>, command |-> FALSE],
      [text |-> <<"/", "C", "a", "n", "c", "e", "l">>, command |-> FALSE],
      [text |-> <<"/", "c", "a", "n", "c", "e", "l">>, command |-> TRUE],
      [text |-> <<"/", "s", "t", "a", "r", "t">>, command |-> TRUE],
      [text |-> <<"/", "v", "i", "e", "w", " ", "proj-1">>, command |-> TRUE],
      [text |-> <<"/", "v", "i", "e", "w">>, command |-> TRUE],
      [text |-> <<"/", "c", "o", "m", "m", "e", "n", "t", " ", "PROJ-2", " ", "o", "k">>, command |-> TRUE],
      [text |-> <<"/", "s", "e", "a", "r", "c", "h", " ", "q">>, command |-> TRUE],
      [text |-> None, command |-> FALSE] }

\* callback_query.data of the buttons pressed
CallbackInputs ==
    { <<"reply_", "PROJ-1", "|", "10000">>,
      <<"reply_", "PROJ-2", "|", "20000">>,
      <<"reply_", "PROJ-2", "|", "10000">>,
      <<"reply_", "PROJ-1">>,
      <<"comments_", "PROJ-1">>,
      <<"comment_", "PROJ-1">>,
      <<"view_comment_", "PROJ-1", "|", "10001">>,
      <<"view_", "PROJ-2">> }

MessageUpdates ==
    { [kind |-> "message", user |-> u, chat |-> c, text |-> m.text, command |-> m.command, data |-> None] :
        u \in Users, c \in Chats, m \in MessageInputs }

CallbackUpdates ==
    { [kind |-> "callback_query", user |-> u, chat |-> 10, text |-> None, command |-> FALSE, data |-> d] :
        u \in Users, d \in CallbackInputs }

Updates == MessageUpdates \cup CallbackUpdates

NoUpdate == [kind |-> "none", user |-> 0, chat |-> 0, text |-> None, command |-> FALSE, data |-> None]

NoPending == [issue_key |-> None, comment_id |-> None, original_author |-> None, original_author_account_id |-> None, original_body |-> None]

\* A coroutine: where it is suspended (pc), the handler that runs, its
\* update, its locals (pending, reply_text, comments), what it has sent and called
\* so far (trace), and how it ended (outcome).  had_pending and racing are
\* history: whether the handler found a pending reply for its user, and
\* whether another message of the same user was suspended in its cascade
\* when this one was handled.
IdleTask ==
    [pc |-> "idle", handler |-> "none", update |-> NoUpdate, outcome |-> "none",
     had_pending |-> FALSE, racing |-> FALSE, pending |-> NoPending, reply_text |-> None,
     comments |-> <<>>, success |-> FALSE, trace |-> <<>>]

IdleEngine ==
    [pc |-> "idle", issue_key |-> None, parent_comment_id |-> None, reply_text |-> None,
     mention_account_id |-> None, mention_display_name |-> None, loop |-> LoopStart(None, <<>>)]

Init ==
    /\ pending_replies = [u \in {} |-> NoPending]
    /\ tasks = [t \in Tasks |-> IdleTask]
    /\ allowed_user_ids \in AllowLists
    /\ consumed = [u \in Users |-> 0]
    /\ engine = IdleEngine

----------------------------------------------------------------------------
(* Chat messages *)

ReplyText(update, text) == [kind |-> "reply_text", chat |-> update.chat, text |-> text]

EditMessageText(update, text) ==
    [kind |-> "edit_message_text", chat |-> update.chat, text |-> text, reply_markup |-> <<>>]

EditMessageTextMarkup(update, text, keyboard) ==
    [kind |-> "edit_message_text", chat |-> update.chat, text |-> text, reply_markup |-> keyboard]

InlineKeyboardButton(text, callback_data) == [text |-> text, callback_data |-> callback_data]

Answer(update) == [kind |-> "answer", chat |-> update.chat, text |-> <<>>]

ReplyTextMarkup(update, text, keyboard) ==
    [kind |-> "reply_text", chat |-> update.chat, text |-> text, reply_markup |-> keyboard]

NotAuthorizedText == <<"Sorry, you are not authorized to use this bot.">>

CancelledText == <<"Reply cancelled.">>

CommentNotFoundText == <<"Comment not found.">>

AddingReplyText(issue_key) == <<"Adding reply to comment on ">> \o issue_key \o <<"...">>

ReplyAddedText(issue_key) == <<"Reply added successfully to comment on ">> \o issue_key \o <<"!">>

ReplyFailedText(issue_key) == <<"Failed to add reply to comment on ">> \o issue_key \o <<". Please try again.">>

ReplyPromptText(issue_key, author) ==
    <<"Reply to comment on ">> \o issue_key \o <<"Replying to: ">> \o author
    \o <<"Please type your reply message. I'll add it as a reply to the comment.">>
    \o <<"Type /cancel to cancel.">>

WelcomeText == <<"Welcome to Jira Telegram Bot!">>

----------------------------------------------------------------------------
(* bot/auth.py and the tracker operations of bot/handlers.py *)

\* Mutant of is_authorized: every user is allowed.
is_authorized_anyone(user_id) == TRUE

\* Mutant of is_authorized: an empty allow-list admits nobody.
is_authorized_listed_only(user_id) == user_id \in allowed_user_ids

is_authorized(user_id) ==
    IF allowed_user_ids = {} THEN TRUE ELSE user_id \in allowed_user_ids

\* user_id in pending_replies
has_pending(pr, user_id) == user_id \in DOMAIN pr

\* Mutant of del_pending: the entry is left in place.
del_pending_skip(pr, user_id) == pr

\* del pending_replies[user_id]
del_pending(pr, user_id) == [u \in DOMAIN pr \ {user_id} |-> pr[u]]

\* Mutant of set_pending: nothing is stored.
set_pending_skip(pr, user_id, pending) == pr

\* Mutant of set_pending: the entry is stored under every user id.
set_pending_everyone(pr, user_id, pending) == [u \in Users |-> pending]

\* Mutant of set_pending: an entry already present is kept (setdefault).
set_pending_keep_first(pr, user_id, pending) ==
    [u \in DOMAIN pr \cup {user_id} |-> IF u \in DOMAIN pr THEN pr[u] ELSE pending]

\* Mutant of set_pending: the account id of the author is not kept.
set_pending_no_account(pr, user_id, pending) ==
    [u \in DOMAIN pr \cup {user_id} |->
        IF u = user_id THEN [pending EXCEPT !.original_author_account_id = None] ELSE pr[u]]

\* pending_replies[user_id] = {...}
set_pending(pr, user_id, pending) ==
    [u \in DOMAIN pr \cup {user_id} |-> IF u = user_id THEN pending ELSE pr[u]]

\* Mutant of is_cancel: the comparison is case-sensitive.
is_cancel_case_sensitive(reply_text) ==
    reply_text \in {<<"/", "c", "a", "n", "c", "e", "l">>, <<"c", "a", "n", "c", "e", "l">>}

\* reply_text.lower() in ["/cancel", "cancel"]
is_cancel(reply_text) ==
    lower(reply_text) \in {<<"/", "c", "a", "n", "c", "e", "l">>, <<"c", "a", "n", "c", "e", "l">>}

\* the mention_text passed to reply_to_comment
mention_text(original_author_account_id, original_author) ==
    IF Truthy(original_author_account_id)
    THEN <<"[~">> \o original_author_account_id \o <<"] ">>
    ELSE <<"Replying to ">> \o original_author \o <<": ">>

\* Mutant of find_comment: the first comment fetched is taken, whatever its id.
find_comment_first(comments, comment_id) ==
    IF comments = <<>> THEN <<>> ELSE <<comments[1]>>

\* next((c for c in comments if c["id"] == comment_id), None): the
\* sequence holding the first match, empty for None
find_comment(comments, comment_id) ==
    IF \E i \in 1..Len(comments) : comments[i].id = comment_id
    THEN <<comments[CHOOSE i \in 1..Len(comments) :
                /\ comments[i].id = comment_id
                /\ \A j \in 1..(i - 1) : comments[j].id # comment_id]>>
    ELSE <<>>

----------------------------------------------------------------------------
(* main.py: the handlers registered, in registration order *)

\* The command a message names: the first word after "/", lower-cased.
CommandName(text) ==
    LET rest == Tail(text)
        end == IF contains(rest, " ") THEN find(rest, " ") - 1 ELSE Len(rest)
    IN lower(SubSeq(rest, 1, end))

CommandHandlers ==
    [name \in {<<"s", "t", "a", "r", "t">>, <<"v", "i", "e", "w">>,
               <<"c", "o", "m", "m", "e", "n", "t">>, <<"s", "e", "a", "r", "c", "h">>} |->
        CASE name = <<"s", "t", "a", "r", "t">> -> "start_command"
          [] name = <<"v", "i", "e", "w">> -> "view_command"
          [] name = <<"c", "o", "m", "m", "e", "n", "t">> -> "comment_command"
          [] OTHER -> "search_command"]

\* telegram_app.process_update: the first registered handler whose filter
\* accepts the update runs; "none" when no filter does.
dispatch(update) ==
    IF update.kind = "message" /\ Truthy(update.text) /\ update.command
       /\ CommandName(update.text) \in DOMAIN CommandHandlers
    THEN CommandHandlers[CommandName(update.text)]
    ELSE IF update.kind = "callback_query" THEN "button_callback"
    ELSE IF update.kind = "message" /\ Truthy(update.text) /\ ~update.command
    THEN "handle_reply_message"
    ELSE "none"

\* The updates each registered handler receives, and those none does
ReplyMessageUpdates == {update \in Updates : dispatch(update) = "handle_reply_message"}

StartUpdates == {update \in Updates : dispatch(update) = "start_command"}

ViewUpdates == {update \in Updates : dispatch(update) = "view_command"}

CommentUpdates == {update \in Updates : dispatch(update) = "comment_command"}

SearchUpdates == {update \in Updates : dispatch(update) = "search_command"}

ButtonUpdates == {update \in Updates : dispatch(update) = "button_callback"}

UnhandledUpdates == {update \in Updates : dispatch(update) = "none"}

----------------------------------------------------------------------------
(* bot/handlers.py: the coroutines, one operator per stretch of code       *)
(* between two suspension points.  Each gives the tracker and the task     *)
(* as the stretch leaves them.                                             *)

Started(handler, update) == [IdleTask EXCEPT !.handler = handler, !.update = update]

\* Mutant of handle_reply_message: a reply that is consumed stays in
\* pending_replies.
handle_reply_message_no_clear(pr, update) ==
    LET user_id == update.user
        reply_text == strip(update.text)
        task == Started("handle_reply_message", update)
    IN
    IF ~Truthy(update.text)
    THEN [pending_replies |-> pr, task |-> [task EXCEPT !.pc = "done", !.outcome = "no_text"]]
    ELSE IF ~is_authorized(user_id)
    THEN [pending_replies |-> pr,
          task |-> [task EXCEPT !.pc = "done", !.outcome = "denied",
                                !.trace = <<ReplyText(update, NotAuthorizedText)>>]]
    ELSE IF ~has_pending(pr, user_id)
    THEN [pending_replies |-> pr, task |-> [task EXCEPT !.pc = "done", !.outcome = "ignored"]]
    ELSE IF is_cancel(reply_text)
    THEN [pending_replies |-> del_pending(pr, user_id),
          task |-> [task EXCEPT !.pc = "done", !.outcome = "cancelled", !.had_pending = TRUE,
                                !.trace = <<ReplyText(update, CancelledText)>>]]
    ELSE [pending_replies |-> pr,
          task |-> [task EXCEPT !.pc = "hrm_status", !.outcome = "consumed", !.had_pending = TRUE,
                                !.pending = pr[user_id], !.reply_text = reply_text,
                                !.trace = <<ReplyText(update, AddingReplyText(pr[user_id].issue_key))>>]]

\* Mutant of handle_reply_message: the cancel words are looked for before
\* the pending reply is.
handle_reply_message_cancel_first(pr, update) ==
    LET user_id == update.user
        reply_text == strip(update.text)
        task == Started("handle_reply_message", update)
    IN
    IF ~Truthy(update.text)
    THEN [pending_replies |-> pr, task |-> [task EXCEPT !.pc = "done", !.outcome = "no_text"]]
    ELSE IF ~is_authorized(user_id)
    THEN [pending_replies |-> pr,
          task |-> [task EXCEPT !.pc = "done", !.outcome = "denied",
                                !.trace = <<ReplyText(update, NotAuthorizedText)>>]]
    ELSE IF is_cancel(reply_text)
    THEN [pending_replies |-> del_pending(pr, user_id),
          task |-> [task EXCEPT !.pc = "done", !.outcome = "cancelled", !.had_pending = has_pending(pr, user_id),
                                !.trace = <<ReplyText(update, CancelledText)>>]]
    ELSE IF ~has_pending(pr, user_id)
    THEN [pending_replies |-> pr, task |-> [task EXCEPT !.pc = "done", !.outcome = "ignored"]]
    ELSE [pending_replies |-> del_pending(pr, user_id),
          task |-> [task EXCEPT !.pc = "hrm_status", !.outcome = "consumed", !.had_pending = TRUE,
                                !.pending = pr[user_id], !.reply_text = reply_text,
                                !.trace = <<ReplyText(update, AddingReplyText(pr[user_id].issue_key))>>]]

\* handle_reply_message, from its entry to its first await
handle_reply_message(pr, update) ==
    LET user_id == update.user
        reply_text == strip(update.text)
        task == Started("handle_reply_message", update)
    IN
    IF ~Truthy(update.text)
    THEN [pending_replies |-> pr, task |-> [task EXCEPT !.pc = "done", !.outcome = "no_text"]]
    ELSE IF ~is_authorized(user_id)
    THEN [pending_replies |-> pr,
          task |-> [task EXCEPT !.pc = "done", !.outcome = "denied",
                                !.trace = <<ReplyText(update, NotAuthorizedText)>>]]
    ELSE IF ~has_pending(pr, user_id)
    THEN [pending_replies |-> pr, task |-> [task EXCEPT !.pc = "done", !.outcome = "ignored"]]
    ELSE IF is_cancel(reply_text)
    THEN [pending_replies |-> del_pending(pr, user_id),
          task |-> [task EXCEPT !.pc = "done", !.outcome = "cancelled", !.had_pending = TRUE,
                                !.trace = <<ReplyText(update, CancelledText)>>]]
    ELSE [pending_replies |-> del_pending(pr, user_id),
          task |-> [task EXCEPT !.pc = "hrm_status", !.outcome = "consumed", !.had_pending = TRUE,
                                !.pending = pr[user_id], !.reply_text = reply_text,
                                !.trace = <<ReplyText(update, AddingReplyText(pr[user_id].issue_key))>>]]

\* JiraClient.reply_to_comment as handle_reply_message calls it, the k-th
\* add_comment raising iff raises[k]
reply_to_comment(issue_key, parent_comment_id, reply_text, mention_account_id, mention_display_name, raises) ==
    run_loop(LoopStart(issue_key, build_attempts(issue_key, parent_comment_id, reply_text,
                                                 mention_account_id, mention_display_name)), raises)

\* The attempts the call of line 465 builds: mention_text is passed where
\* mention_account_id stands, and mention_display_name is left at None.
cascade_attempts(task) ==
    build_attempts(task.pending.issue_key, task.pending.comment_id, task.reply_text,
                   mention_text(task.pending.original_author_account_id, task.pending.original_author),
                   None)

\* Mutant of handle_reply_message_cascade: the success message is sent
\* whatever reply_to_comment returned.
handle_reply_message_cascade_always_success(task, raises) ==
    LET pending == task.pending
        loop == reply_to_comment(pending.issue_key, pending.comment_id, task.reply_text,
                                 mention_text(pending.original_author_account_id, pending.original_author),
                                 None, raises)
    IN [task EXCEPT !.pc = "done", !.success = loop.result,
                    !.outcome = IF loop.result THEN "replied" ELSE "failed",
                    !.trace = @ \o loop.calls \o <<ReplyText(task.update, ReplyAddedText(pending.issue_key))>>]

\* Mutant of handle_reply_message_cascade: the verdict is sent before the
\* backend is called.
handle_reply_message_cascade_verdict_first(task, raises) ==
    LET pending == task.pending
        loop == reply_to_comment(pending.issue_key, pending.comment_id, task.reply_text,
                                 mention_text(pending.original_author_account_id, pending.original_author),
                                 None, raises)
    IN [task EXCEPT !.pc = "done", !.success = loop.result,
                    !.outcome = IF loop.result THEN "replied" ELSE "failed",
                    !.trace = @ \o <<ReplyText(task.update, IF loop.result THEN ReplyAddedText(pending.issue_key)
                                                          ELSE ReplyFailedText(pending.issue_key))>>
                              \o loop.calls]

\* handle_reply_message, from the status message to the terminal message
handle_reply_message_cascade(task, raises) ==
    LET pending == task.pending
        loop == reply_to_comment(pending.issue_key, pending.comment_id, task.reply_text,
                                 mention_text(pending.original_author_account_id, pending.original_author),
                                 None, raises)
    IN [task EXCEPT !.pc = "done", !.success = loop.result,
                    !.outcome = IF loop.result THEN "replied" ELSE "failed",
                    !.trace = @ \o loop.calls
                              \o <<ReplyText(task.update, IF loop.result THEN ReplyAddedText(pending.issue_key)
                                                          ELSE ReplyFailedText(pending.issue_key))>>]

\* start_command
start_command(update) ==
    [Started("start_command", update) EXCEPT
        !.pc = "done",
        !.outcome = IF is_authorized(update.user) THEN "welcomed" ELSE "denied",
        !.trace = <<ReplyText(update, IF is_authorized(update.user) THEN WelcomeText ELSE NotAuthorizedText)>>]

\* context.args: the words of the message after the command
args(update) == Tail(split(update.text))

\* update.effective_user.first_name
first_name(user_id) == IF user_id = 1 THEN <<"Ann">> ELSE <<"Bob">>

\* view_command
view_command(update, fetch) ==
    LET task == [Started("view_command", update) EXCEPT !.pc = "done"]
        issue_key == upper(args(update)[1])
        issue == get_issue(issue_key, fetch)
    IN
    IF ~is_authorized(update.user)
    THEN [task EXCEPT !.outcome = "denied", !.trace = <<ReplyText(update, NotAuthorizedText)>>]
    ELSE IF args(update) = <<>>
    THEN [task EXCEPT !.outcome = "usage",
                      !.trace = <<ReplyText(update, <<"Please provide an issue key. Usage: /view PROJ-123">>)>>]
    ELSE IF ~matches_issue_key(issue_key)
    THEN [task EXCEPT !.outcome = "invalid",
                      !.trace = <<ReplyText(update, <<"Invalid issue key format. Use format like: PROJ-123">>)>>]
    ELSE IF issue = <<>>
    THEN [task EXCEPT !.outcome = "no_issue",
                      !.trace = <<ReplyText(update, <<"Fetching ">> \o issue_key \o <<"...">>),
                                  ReplyText(update, <<"Could not find issue ">> \o issue_key
                                                    \o <<". Please check the issue key.">>)>>]
    ELSE [task EXCEPT !.outcome = "viewed",
                      !.trace = <<ReplyText(update, <<"Fetching ">> \o issue_key \o <<"...">>),
                                  ReplyTextMarkup(update,
                                      issue[1].key \o <<"Summary: ">> \o issue[1].summary \o <<"View in Jira">>,
                                      <<(<<InlineKeyboardButton(<<"Add Comment">>, <<"comment_">> \o issue_key),
                                           InlineKeyboardButton(<<"View Comments">>, <<"comments_">> \o issue_key)>>)>>)>>]

\* comment_command
comment_command(update, raised) ==
    LET task == [Started("comment_command", update) EXCEPT !.pc = "done"]
        issue_key == upper(args(update)[1])
        comment_text == join(Tail(args(update)), " ")
        full_comment == <<"Comment from Telegram (">> \o first_name(update.user) \o <<"):", "\n">> \o comment_text
    IN
    IF ~is_authorized(update.user)
    THEN [task EXCEPT !.outcome = "denied", !.trace = <<ReplyText(update, NotAuthorizedText)>>]
    ELSE IF Len(args(update)) < 2
    THEN [task EXCEPT !.outcome = "usage",
                      !.trace = <<ReplyText(update, <<"Please provide an issue key and comment. Usage: /comment PROJ-123 Your comment here">>)>>]
    ELSE IF ~matches_issue_key(issue_key)
    THEN [task EXCEPT !.outcome = "invalid",
                      !.trace = <<ReplyText(update, <<"Invalid issue key format. Use format like: PROJ-123">>)>>]
    ELSE [task EXCEPT !.outcome = IF raised THEN "comment_failed" ELSE "commented",
                      !.success = ~raised,
                      !.trace = <<ReplyText(update, <<"Adding comment to ">> \o issue_key \o <<"...">>),
                                  add_comment(issue_key, full_comment, raised),
                                  ReplyText(update, IF raised
                                                    THEN <<"Failed to add comment to ">> \o issue_key
                                                         \o <<". Please check the issue key.">>
                                                    ELSE <<"Comment added successfully to ">> \o issue_key \o <<"!">>)>>]

\* search_command
search_command(update, fetch) ==
    LET task == [Started("search_command", update) EXCEPT !.pc = "done"]
        jql == join(args(update), " ")
        issues == search_issues(jql, fetch)
    IN
    IF ~is_authorized(update.user)
    THEN [task EXCEPT !.outcome = "denied", !.trace = <<ReplyText(update, NotAuthorizedText)>>]
    ELSE IF args(update) = <<>>
    THEN [task EXCEPT !.outcome = "usage",
                      !.trace = <<ReplyText(update, <<"Please provide a JQL query. Usage: /search assignee = currentUser()">>)>>]
    ELSE IF issues = <<>>
    THEN [task EXCEPT !.outcome = "none_found",
                      !.trace = <<ReplyText(update, <<"Searching with JQL: ">> \o jql \o <<"...">>),
                                  ReplyText(update, <<"No issues found matching your query.">>)>>]
    ELSE [task EXCEPT !.outcome = "found",
                      !.trace = <<ReplyText(update, <<"Searching with JQL: ">> \o jql \o <<"...">>),
                                  ReplyText(update, <<"Search Results (1 issues):">> \o issues[1].key
                                                    \o <<" - ">> \o issues[1].summary)>>]

\* button_callback, to its first await: await query.answer()
button_callback_answer(update) ==
    [Started("button_callback", update) EXCEPT !.pc = "bc_answer", !.trace = <<Answer(update)>>]

\* Mutant of button_callback_reply: the prompt goes out where the entry
\* is to be stored, and the entry is not stored.
button_callback_reply_prompt_first(pr, task, fetch) ==
    LET update == task.update
        user_id == update.user
        data_parts == remove_all(update.data, "reply_")
        parts == split_once(data_parts, "|")
        issue_key == parts[1]
        comment_id == parts[2]
        comments == get_issue_comments(issue_key, fetch)
        original_comment == find_comment(comments, comment_id)
    IN
    IF ~contains(data_parts, "|")
    THEN [pending_replies |-> pr, task |-> [task EXCEPT !.pc = "done", !.outcome = "malformed"]]
    ELSE IF original_comment = <<>>
    THEN [pending_replies |-> pr,
          task |-> [task EXCEPT !.pc = "done", !.outcome = "not_found", !.comments = comments,
                                !.trace = @ \o <<EditMessageText(update, CommentNotFoundText)>>]]
    ELSE [pending_replies |-> pr,
          task |-> [task EXCEPT !.pc = "bc_prompt", !.outcome = "stored", !.had_pending = has_pending(pr, user_id),
                                !.comments = comments,
                                !.trace = @ \o <<EditMessageText(update, ReplyPromptText(issue_key, original_comment[1].author))>>]]

\* button_callback, the reply_ branch up to the prompt (lines 253-300);
\* fetch is what the backend does
button_callback_reply(pr, task, fetch) ==
    LET update == task.update
        user_id == update.user
        data_parts == remove_all(update.data, "reply_")
        parts == split_once(data_parts, "|")
        issue_key == parts[1]
        comment_id == parts[2]
        comments == get_issue_comments(issue_key, fetch)
        original_comment == find_comment(comments, comment_id)
    IN
    IF ~contains(data_parts, "|")
    THEN [pending_replies |-> pr, task |-> [task EXCEPT !.pc = "done", !.outcome = "malformed"]]
    ELSE IF original_comment = <<>>
    THEN [pending_replies |-> pr,
          task |-> [task EXCEPT !.pc = "done", !.outcome = "not_found", !.comments = comments,
                                !.trace = @ \o <<EditMessageText(update, CommentNotFoundText)>>]]
    ELSE [pending_replies |->
              set_pending(pr, user_id,
                          [issue_key |-> issue_key, comment_id |-> comment_id,
                           original_author |-> original_comment[1].author,
                           original_author_account_id |-> original_comment[1].author_account_id,
                           original_body |-> original_comment[1].body]),
          task |-> [task EXCEPT !.pc = "bc_prompt", !.outcome = "stored", !.had_pending = has_pending(pr, user_id),
                                !.comments = comments]]

\* The prompt of lines 302-308, built from the locals issue_key and
\* original_comment
ReplyPrompt(task) ==
    LET parts == split_once(remove_all(task.update.data, "reply_"), "|")
        original_comment == find_comment(task.comments, parts[2])
    IN EditMessageText(task.update, ReplyPromptText(parts[1], original_comment[1].author))

\* button_callback, the reply_ branch: the prompt goes out and the
\* handler returns.
button_callback_prompt(task) ==
    [task EXCEPT !.pc = "done", !.trace = @ \o <<ReplyPrompt(task)>>]

\* sorted(comments, key=lambda x: x["created"], reverse=True): comments[i]
\* goes behind every comment already placed that is not older (stable).
RECURSIVE insert_desc(_, _)
insert_desc(sorted, comment) ==
    IF sorted = <<>> THEN <<comment>>
    ELSE IF str_less(Head(sorted).created, comment.created) THEN <<comment>> \o sorted
    ELSE <<Head(sorted)>> \o insert_desc(Tail(sorted), comment)

\* Mutant of sorted_desc: the comments stay in the order fetched.
sorted_desc_as_fetched(comments) == comments

RECURSIVE sorted_desc(_)
sorted_desc(comments) ==
    IF comments = <<>> THEN <<>>
    ELSE insert_desc(sorted_desc(SubSeq(comments, 1, Len(comments) - 1)), comments[Len(comments)])

\* comment["body"][:200] and len(comment["body"]) > 200
BodyLimit == 200

is_truncated(comment) == Len(comment.body) > BodyLimit

\* The lines of the listing for the i-th displayed comment
CommentLines(i, comment) ==
    <<ToString(i), ". ">> \o comment.author \o <<" (">> \o prefix_of(comment.created, 1) \o <<")">>
    \o prefix_of(comment.body, BodyLimit) \o (IF is_truncated(comment) THEN <<"...">> ELSE <<>>)

RECURSIVE CommentsListing(_, _)
CommentsListing(comments, i) ==
    IF i > Len(comments) THEN <<>> ELSE CommentLines(i, comments[i]) \o CommentsListing(comments, i + 1)

\* The row of buttons under the i-th displayed comment
CommentButtons(issue_key, i, comment) ==
    <<InlineKeyboardButton(<<"Reply to comment ", ToString(i)>>, <<"reply_">> \o issue_key \o <<"|">> \o comment.id)>>
    \o (IF is_truncated(comment)
        THEN <<InlineKeyboardButton(<<"View Full">>, <<"view_comment_">> \o issue_key \o <<"|">> \o comment.id)>>
        ELSE <<>>)

\* Mutant of button_callback_comments: listing the comments drops the
\* presser's pending reply.
button_callback_comments_clears(pr, task, fetch) ==
    [pending_replies |-> del_pending(pr, task.update.user),
     task |-> [task EXCEPT !.pc = "done", !.outcome = "listed"]]

\* button_callback, the comments_ branch
button_callback_comments(pr, task, fetch) ==
    LET update == task.update
        issue_key == remove_all(update.data, "comments_")
        fetched == get_issue_comments(issue_key, fetch)
        comments == sorted_desc(fetched)
        message == <<"Comments for ">> \o issue_key \o <<" (", ToString(Len(comments)), " total):">>
                   \o CommentsListing(comments, 1)
        keyboard == [i \in 1..Len(comments) |-> CommentButtons(issue_key, i, comments[i])]
                    \o <<(<<InlineKeyboardButton(<<"Back">>, <<"view_">> \o issue_key)>>)>>
    IN
    IF fetched = <<>>
    THEN [pending_replies |-> pr,
          task |-> [task EXCEPT !.pc = "done", !.outcome = "no_comments",
                                !.trace = @ \o <<EditMessageText(update, <<"No comments found for ">> \o issue_key \o <<".">>)>>]]
    ELSE [pending_replies |-> pr,
          task |-> [task EXCEPT !.pc = "done", !.outcome = "listed", !.comments = comments,
                                !.trace = @ \o <<EditMessageTextMarkup(update, message, keyboard)>>]]

\* button_callback, the comment_ branch
button_callback_comment(pr, task) ==
    LET issue_key == remove_all(task.update.data, "comment_")
    IN [pending_replies |-> pr,
        task |-> [task EXCEPT !.pc = "done", !.outcome = "usage",
                              !.trace = @ \o <<EditMessageText(task.update,
                                                  <<"To add a comment to ">> \o issue_key \o <<", use:">>
                                                  \o <<"/comment ">> \o issue_key \o <<" Your comment here">>)>>]]

\* button_callback, the view_comment_ branch
button_callback_view_comment(pr, task, fetch) ==
    LET update == task.update
        data_parts == remove_all(update.data, "view_comment_")
        parts == split_once(data_parts, "|")
        issue_key == parts[1]
        comment_id == parts[2]
        comments == get_issue_comments(issue_key, fetch)
        comment == find_comment(comments, comment_id)
    IN
    IF ~contains(data_parts, "|")
    THEN [pending_replies |-> pr, task |-> [task EXCEPT !.pc = "done", !.outcome = "malformed"]]
    ELSE IF comment = <<>>
    THEN [pending_replies |-> pr,
          task |-> [task EXCEPT !.pc = "done", !.outcome = "not_found", !.comments = comments,
                                !.trace = @ \o <<EditMessageText(update, CommentNotFoundText)>>]]
    ELSE [pending_replies |-> pr,
          task |-> [task EXCEPT !.pc = "done", !.outcome = "viewed_comment", !.comments = comments,
                                !.trace = @ \o <<EditMessageTextMarkup(update,
                                    <<"Full Comment Details", "Author: ">> \o comment[1].author
                                    \o <<"Created: ">> \o comment[1].created \o <<"Issue: ">> \o issue_key
                                    \o <<"Comment:">> \o comment[1].body,
                                    <<(<<InlineKeyboardButton(<<"Reply">>, <<"reply_">> \o issue_key \o <<"|">> \o comment_id),
                                         InlineKeyboardButton(<<"Back to Comments">>, <<"comments_">> \o issue_key)>>)>>)>>]]

\* button_callback, the view_ branch
button_callback_view(pr, task, fetch) ==
    LET update == task.update
        issue_key == remove_all(update.data, "view_")
        issue == get_issue(issue_key, fetch)
    IN
    IF issue = <<>>
    THEN [pending_replies |-> pr,
          task |-> [task EXCEPT !.pc = "done", !.outcome = "no_issue",
                                !.trace = @ \o <<EditMessageText(update, <<"Could not find issue ">> \o issue_key \o <<".">>)>>]]
    ELSE [pending_replies |-> pr,
          task |-> [task EXCEPT !.pc = "done", !.outcome = "viewed",
                                !.trace = @ \o <<EditMessageTextMarkup(update,
                                    issue[1].key \o <<"Summary: ">> \o issue[1].summary \o <<"View in Jira">>,
                                    <<(<<InlineKeyboardButton(<<"Add Comment">>, <<"comment_">> \o issue_key),
                                         InlineKeyboardButton(<<"View Comments">>, <<"comments_">> \o issue_key)>>)>>)>>]]

\* button_callback, from the answer to its end
button_callback(pr, task, fetch) ==
    IF ~is_authorized(task.update.user)
    THEN [pending_replies |-> pr,
          task |-> [task EXCEPT !.pc = "done", !.outcome = "denied",
                                !.trace = @ \o <<EditMessageText(task.update, NotAuthorizedText)>>]]
    ELSE IF startswith(task.update.data, "comments_")
    THEN button_callback_comments(pr, task, fetch)
    ELSE IF startswith(task.update.data, "comment_")
    THEN button_callback_comment(pr, task)
    ELSE IF startswith(task.update.data, "reply_")
    THEN button_callback_reply(pr, task, fetch)
    ELSE IF startswith(task.update.data, "view_comment_")
    THEN button_callback_view_comment(pr, task, fetch)
    ELSE IF startswith(task.update.data, "view_")
    THEN button_callback_view(pr, task, fetch)
    ELSE [pending_replies |-> pr, task |-> [task EXCEPT !.pc = "done", !.outcome = "other"]]

----------------------------------------------------------------------------
(* The event loop: main.webhook runs one coroutine per request *)

\* A slot is free, and no finished request waits for its response: a
\* finished request touches nothing any more, so the model lets its
\* response go out before another coroutine runs.
Idle(t) == tasks[t].pc = "idle" /\ \A o \in Tasks : tasks[o].pc # "done"

Resumes(t, pc) == tasks[t].pc = pc /\ \A o \in Tasks : tasks[o].pc # "done"

\* Another message of the same user is suspended in its cascade.
Racing(t, update) ==
    \E o \in Tasks \ {t} : tasks[o].pc = "hrm_status" /\ tasks[o].update.user = update.user

\* A text message reaches handle_reply_message.
WebhookReplyMessage(t) ==
    \E update \in ReplyMessageUpdates :
        /\ Idle(t)
        /\ LET r == handle_reply_message(pending_replies, update)
           IN /\ pending_replies' = r.pending_replies
              /\ tasks' = [tasks EXCEPT ![t] = [r.task EXCEPT !.racing = Racing(t, update)]]
              /\ consumed' = IF r.task.outcome = "consumed"
                             THEN [consumed EXCEPT ![update.user] = @ + 1]
                             ELSE consumed
        /\ UNCHANGED <<allowed_user_ids, engine>>

\* Mutant of ReplyCascade: the cascade reads the tracker again after the
\* status message and removes what it finds.
ReplyCascade_reads_tracker(t) ==
    /\ Resumes(t, "hrm_status")
    /\ LET user_id == tasks[t].update.user
           task == IF has_pending(pending_replies, user_id)
                   THEN [tasks[t] EXCEPT !.pending = pending_replies[user_id]]
                   ELSE tasks[t]
       IN /\ \E raises \in [1..Len(cascade_attempts(task)) -> BOOLEAN] :
                tasks' = [tasks EXCEPT ![t] = handle_reply_message_cascade(task, raises)]
          /\ pending_replies' = del_pending(pending_replies, user_id)
    /\ UNCHANGED <<allowed_user_ids, consumed, engine>>

\* The status message is sent: the cascade runs and the verdict is sent.
ReplyCascade(t) ==
    /\ Resumes(t, "hrm_status")
    /\ \E raises \in [1..Len(cascade_attempts(tasks[t])) -> BOOLEAN] :
          tasks' = [tasks EXCEPT ![t] = handle_reply_message_cascade(tasks[t], raises)]
    /\ UNCHANGED <<pending_replies, allowed_user_ids, consumed, engine>>

\* A /start command reaches start_command.
WebhookStart(t) ==
    \E update \in StartUpdates :
        /\ Idle(t)
        /\ tasks' = [tasks EXCEPT ![t] = start_command(update)]
        /\ UNCHANGED <<pending_replies, allowed_user_ids, consumed, engine>>

\* A /view command reaches view_command.
WebhookView(t) ==
    \E update \in ViewUpdates, fetch \in {"raise", "ok"} :
        /\ Idle(t)
        /\ tasks' = [tasks EXCEPT ![t] = view_command(update, fetch)]
        /\ UNCHANGED <<pending_replies, allowed_user_ids, consumed, engine>>

\* A /comment command reaches comment_command.
WebhookComment(t) ==
    \E update \in CommentUpdates, raised \in BOOLEAN :
        /\ Idle(t)
        /\ tasks' = [tasks EXCEPT ![t] = comment_command(update, raised)]
        /\ UNCHANGED <<pending_replies, allowed_user_ids, consumed, engine>>

\* A /search command reaches search_command.
WebhookSearch(t) ==
    \E update \in SearchUpdates, fetch \in {"raise", "ok"} :
        /\ Idle(t)
        /\ tasks' = [tasks EXCEPT ![t] = search_command(update, fetch)]
        /\ UNCHANGED <<pending_replies, allowed_user_ids, consumed, engine>>

\* A button press reaches button_callback, which answers the query.
WebhookButton(t) ==
    \E update \in ButtonUpdates :
        /\ Idle(t)
        /\ tasks' = [tasks EXCEPT ![t] = button_callback_answer(update)]
        /\ UNCHANGED <<pending_replies, allowed_user_ids, consumed, engine>>

\* The query is answered: the rest of button_callback runs.
ButtonCallback(t) ==
    /\ Resumes(t, "bc_answer")
    /\ \E fetch \in {"raise", "ok"} :
          LET r == button_callback(pending_replies, tasks[t], fetch)
          IN /\ pending_replies' = r.pending_replies
             /\ tasks' = [tasks EXCEPT ![t] = r.task]
             /\ consumed' = IF r.task.outcome = "stored"
                            THEN [consumed EXCEPT ![tasks[t].update.user] = 0]
                            ELSE consumed
    /\ UNCHANGED <<allowed_user_ids, engine>>

\* The entry is stored: the prompt is sent and button_callback returns.
ButtonPrompt(t) ==
    /\ Resumes(t, "bc_prompt")
    /\ tasks' = [tasks EXCEPT ![t] = button_callback_prompt(tasks[t])]
    /\ UNCHANGED <<pending_replies, allowed_user_ids, consumed, engine>>

\* No registered handler accepts the update.
WebhookNoHandler(t) ==
    \E update \in UnhandledUpdates :
        /\ Idle(t)
        /\ tasks' = [tasks EXCEPT ![t] = [Started("none", update) EXCEPT !.pc = "done", !.outcome = "no_handler"]]
        /\ UNCHANGED <<pending_replies, allowed_user_ids, consumed, engine>>

\* The handler has returned: webhook answers 200 and the request is over.
Respond(t) ==
    /\ tasks[t].pc = "done"
    /\ tasks' = [tasks EXCEPT ![t] = IdleTask]
    /\ UNCHANGED <<pending_replies, allowed_user_ids, consumed, engine>>

Next ==
    \E t \in Tasks :
        \/ WebhookReplyMessage(t)
        \/ ReplyCascade(t)
        \/ WebhookStart(t)
        \/ WebhookView(t)
        \/ WebhookComment(t)
        \/ WebhookSearch(t)
        \/ WebhookButton(t)
        \/ ButtonCallback(t)
        \/ ButtonPrompt(t)
        \/ WebhookNoHandler(t)
        \/ Respond(t)

Spec == Init /\ [][Next]_vars

\* The event loop resumes a coroutine whose await has completed after
\* finitely many other callbacks (the ready queue is first in, first out),
\* and a handler that has returned lets webhook answer.
Fairness ==
    \A t \in Tasks :
        /\ SF_vars(ReplyCascade(t))
        /\ SF_vars(ButtonCallback(t))
        /\ SF_vars(ButtonPrompt(t))
        /\ WF_vars(Respond(t))

----------------------------------------------------------------------------
(* The reply flow on its own: reply presses on comments 10000 and 20000
   and the text " ok", of both users in chat 10, with two requests in
   flight, under the fairness of the event loop *)

ReplyFlowButtons == {update \in ButtonUpdates :
                        update.data \in {<<"reply_", "PROJ-1", "|", "10000">>, <<"reply_", "PROJ-2", "|", "20000">>}}

ReplyFlowMessages == {update \in ReplyMessageUpdates : update.chat = 10 /\ update.text = <<" ", "o", "k">>}

\* A reply button press reaches button_callback, which answers the query.
ReplyFlowButton(t) ==
    \E update \in ReplyFlowButtons :
        /\ Idle(t)
        /\ tasks' = [tasks EXCEPT ![t] = button_callback_answer(update)]
        /\ UNCHANGED <<pending_replies, allowed_user_ids, consumed, engine>>

\* The text reaches handle_reply_message.
ReplyFlowMessage(t) ==
    \E update \in ReplyFlowMessages :
        /\ Idle(t)
        /\ LET r == handle_reply_message(pending_replies, update)
           IN /\ pending_replies' = r.pending_replies
              /\ tasks' = [tasks EXCEPT ![t] = [r.task EXCEPT !.racing = Racing(t, update)]]
              /\ consumed' = IF r.task.outcome = "consumed"
                             THEN [consumed EXCEPT ![update.user] = @ + 1]
                             ELSE consumed
        /\ UNCHANGED <<allowed_user_ids, engine>>

NextReplyFlow ==
    \E t \in Tasks :
        \/ ReplyFlowButton(t)
        \/ ButtonCallback(t)
        \/ ButtonPrompt(t)
        \/ ReplyFlowMessage(t)
        \/ ReplyCascade(t)
        \/ Respond(t)

SpecReplyFlow == Init /\ [][NextReplyFlow]_vars /\ Fairness

----------------------------------------------------------------------------
(* The service under failures: the reply flow of both users on comment
   10000 of PROJ-1, with requests whose processing raises. Here engine
   is the history of the service: the failure that was answered first,
   the reply press received after it, and whether the entry that press
   stored was consumed. *)

ServiceButtons == {update \in ButtonUpdates : update.data = <<"reply_", "PROJ-1", "|", "10000">>}

ServiceMessages == ReplyFlowMessages

\* The outcomes of a request that failed: "Comment not found.", a cascade
\* in which every attempt raised, an exception that reached webhook's
\* except clause, an exception of a handler that reached error_handler
ServiceFailures == {"not_found", "failed", "http_500", "error_handler"}

ServingHistory == [stage |-> "serving", kind |-> "none", slot |-> 0, user |-> 0]

InitService ==
    /\ pending_replies = [u \in {} |-> NoPending]
    /\ tasks = [t \in Tasks |-> IdleTask]
    /\ allowed_user_ids = {}
    /\ consumed = [u \in Users |-> 0]
    /\ engine = ServingHistory

\* Mutant of webhook_except: the exception is raised again and the
\* request never returns.
webhook_reraise(task, outcome) == [task EXCEPT !.pc = "crashed", !.outcome = outcome]

\* except Exception: print, return Response(status_code=500); and
\* error_handler, for an exception of a handler: print, after which
\* process_update returns and webhook answers 200. Either way the
\* request is over.
webhook_except(task, outcome) == [task EXCEPT !.pc = "done", !.outcome = outcome]

\* The body of a request is no update (request.json or Update.de_json
\* raises), or the call a handler awaits raises.
ServiceRaises(t) ==
    /\ \/ /\ Idle(t)
          /\ tasks' = [tasks EXCEPT ![t] = webhook_except(Started("none", NoUpdate), "http_500")]
       \/ /\ \E pc \in {"bc_answer", "bc_prompt", "hrm_status"} : Resumes(t, pc)
          /\ tasks' = [tasks EXCEPT ![t] = webhook_except(tasks[t], "error_handler")]
    /\ UNCHANGED <<pending_replies, allowed_user_ids, consumed, engine>>

\* A reply button press reaches button_callback, which answers the query.
ServicePress(t) ==
    \E update \in ServiceButtons :
        /\ Idle(t)
        /\ tasks' = [tasks EXCEPT ![t] = button_callback_answer(update)]
        /\ engine' = IF engine.stage = "failure_answered"
                      THEN [engine EXCEPT !.stage = "pressed", !.slot = t, !.user = update.user]
                      ELSE engine
        /\ UNCHANGED <<pending_replies, allowed_user_ids, consumed>>

\* The query is answered: button_callback runs to the prompt or to its
\* return.
ServiceStore(t) ==
    /\ Resumes(t, "bc_answer")
    /\ \E fetch \in {"raise", "ok"} :
          LET r == button_callback(pending_replies, tasks[t], fetch)
          IN /\ pending_replies' = r.pending_replies
             /\ tasks' = [tasks EXCEPT ![t] = r.task]
             /\ consumed' = IF r.task.outcome = "stored"
                            THEN [consumed EXCEPT ![tasks[t].update.user] = 0]
                            ELSE consumed
             /\ engine' = IF engine.stage = "pressed" /\ engine.slot = t /\ r.task.outcome = "stored"
                           THEN [engine EXCEPT !.stage = "stored"]
                           ELSE engine
    /\ UNCHANGED allowed_user_ids

\* The text reaches handle_reply_message.
ServiceText(t) ==
    \E update \in ServiceMessages :
        /\ Idle(t)
        /\ LET r == handle_reply_message(pending_replies, update)
           IN /\ pending_replies' = r.pending_replies
              /\ tasks' = [tasks EXCEPT ![t] = [r.task EXCEPT !.racing = Racing(t, update)]]
              /\ consumed' = IF r.task.outcome = "consumed"
                             THEN [consumed EXCEPT ![update.user] = @ + 1]
                             ELSE consumed
              /\ engine' = IF /\ engine.stage = "stored"
                              /\ engine.user = update.user
                              /\ r.task.outcome = "consumed"
                              /\ consumed[update.user] = 0
                            THEN [engine EXCEPT !.stage = "consumed"]
                            ELSE engine
        /\ UNCHANGED allowed_user_ids

\* The handler is over: webhook answers and the request is over.
ServiceRespond(t) ==
    /\ tasks[t].pc = "done"
    /\ tasks' = [tasks EXCEPT ![t] = IdleTask]
    /\ engine' = IF engine.stage = "serving" /\ tasks[t].outcome \in ServiceFailures
                  THEN [engine EXCEPT !.stage = "failure_answered", !.kind = tasks[t].outcome]
                  ELSE engine
    /\ UNCHANGED <<pending_replies, allowed_user_ids, consumed>>

NextService ==
    \E t \in Tasks :
        \/ ServicePress(t)
        \/ ServiceStore(t)
        \/ ButtonPrompt(t)
        \/ ServiceText(t)
        \/ ReplyCascade(t)
        \/ ServiceRaises(t)
        \/ ServiceRespond(t)

\* A handler that is over lets webhook answer: the coroutine of the
\* request is ready and the event loop runs it.
ServiceFairness == \A t \in Tasks : WF_vars(ServiceRespond(t))

SpecService == InitService /\ [][NextService]_vars /\ ServiceFairness

----------------------------------------------------------------------------
(* JiraClient.reply_to_comment on its own: any arguments, one add_comment  *)
(* call per step, each call returning or raising.                          *)

EngineTexts == {<<"o", "k">>, <<"F", "i", "x", "e", "d", " ", "n", "o", "w">>}

EngineAccountIds == {None, <<>>, <<"acct-1">>}

EngineDisplayNames == {None, <<>>, <<"Ann">>}

EngineCalls ==
    { [IdleEngine EXCEPT !.pc = "called", !.issue_key = k, !.parent_comment_id = <<"10000">>,
                         !.reply_text = x, !.mention_account_id = a, !.mention_display_name = n] :
        k \in {<<"PROJ-123">>, <<"PROJ-1">>}, x \in EngineTexts,
        a \in EngineAccountIds, n \in EngineDisplayNames }

InitEngine ==
    /\ pending_replies = [u \in {} |-> NoPending]
    /\ tasks = [t \in Tasks |-> IdleTask]
    /\ allowed_user_ids = {}
    /\ consumed = [u \in Users |-> 0]
    /\ engine \in EngineCalls

\* Lines 158-238: the attempts list is built.
EngineBuild ==
    /\ engine.pc = "called"
    /\ engine' = [engine EXCEPT
                    !.pc = "loop",
                    !.loop = LoopStart(engine.issue_key,
                                       build_attempts(engine.issue_key, engine.parent_comment_id, engine.reply_text,
                                                      engine.mention_account_id, engine.mention_display_name))]
    /\ UNCHANGED <<pending_replies, tasks, allowed_user_ids, consumed>>

\* Lines 240-265: one iteration of the loop, or the return after it.
EngineIterate ==
    /\ engine.pc = "loop"
    /\ \E raised \in BOOLEAN :
          LET loop == loop_step(engine.loop, raised)
          IN engine' = [engine EXCEPT !.loop = loop, !.pc = IF loop.returned THEN "returned" ELSE "loop"]
    /\ UNCHANGED <<pending_replies, tasks, allowed_user_ids, consumed>>

NextEngine == EngineBuild \/ EngineIterate

SpecEngine == InitEngine /\ [][NextEngine]_vars

\* reply_to_comment is synchronous: once called it runs, and each
\* add_comment call returns or raises.
SpecEngineFair == SpecEngine /\ WF_vars(EngineBuild) /\ WF_vars(EngineIterate)

----------------------------------------------------------------------------
(* The methods of JiraClient that wrap one backend operation, called on
   their own *)

ClientMethods == {"get_issue", "add_comment", "search_issues", "get_issue_comments", "update_issue"}

\* PROJ-9 is an issue the backend does not have.
ClientIssueKeys == {<<"PROJ-1">>, <<"PROJ-2">>, <<"PROJ-9">>}

ClientTexts == {<<"o", "k">>, <<>>}

\* A call of a method: text is the comment text, the JQL or the fields.
ClientCalls ==
    { [pc |-> "called", method |-> m, issue_key |-> k, text |-> x, outcome |-> "none",
       propagated |-> FALSE, result |-> <<>>] :
        m \in ClientMethods, k \in ClientIssueKeys, x \in ClientTexts }

InitClient ==
    /\ pending_replies = [u \in {} |-> NoPending]
    /\ tasks = [t \in Tasks |-> IdleTask]
    /\ allowed_user_ids = {}
    /\ consumed = [u \in Users |-> 0]
    /\ engine \in ClientCalls

\* Mutant of JiraClient_return: the method has no except clause.
JiraClient_return_uncaught(call) ==
    IF call.outcome = "raise"
    THEN [call EXCEPT !.pc = "returned", !.propagated = TRUE]
    ELSE [call EXCEPT !.pc = "returned",
                      !.result = CASE call.method = "get_issue" -> get_issue(call.issue_key, call.outcome)
                                   [] call.method = "add_comment" -> add_comment_returns(call.issue_key, call.text, FALSE)
                                   [] call.method = "search_issues" -> search_issues(call.text, call.outcome)
                                   [] call.method = "get_issue_comments" -> get_issue_comments(call.issue_key, call.outcome)
                                   [] call.method = "update_issue" -> update_issue(call.issue_key, call.text, call.outcome)]

\* The return of a method: its try block ends with a return and its
\* `except Exception` clause with another, so nothing is propagated.
JiraClient_return(call) ==
    [call EXCEPT !.pc = "returned",
                 !.propagated = FALSE,
                 !.result = CASE call.method = "get_issue" -> get_issue(call.issue_key, call.outcome)
                              [] call.method = "add_comment" ->
                                     add_comment_returns(call.issue_key, call.text, call.outcome = "raise")
                              [] call.method = "search_issues" -> search_issues(call.text, call.outcome)
                              [] call.method = "get_issue_comments" -> get_issue_comments(call.issue_key, call.outcome)
                              [] call.method = "update_issue" -> update_issue(call.issue_key, call.text, call.outcome)]

\* The backend operation inside the try block returns or raises; an issue
\* the backend does not have makes self.jira.issue raise.
ClientTry ==
    /\ engine.pc = "called"
    /\ \E outcome \in (IF engine.method \in {"get_issue", "get_issue_comments", "update_issue"}
                        THEN FetchOutcomes(engine.issue_key) ELSE {"raise", "ok"}) :
          engine' = [engine EXCEPT !.pc = "tried", !.outcome = outcome]
    /\ UNCHANGED <<pending_replies, tasks, allowed_user_ids, consumed>>

\* The method returns to its caller.
ClientReturn ==
    /\ engine.pc = "tried"
    /\ engine' = JiraClient_return(engine)
    /\ UNCHANGED <<pending_replies, tasks, allowed_user_ids, consumed>>

NextClient == ClientTry \/ ClientReturn

SpecClient == InitClient /\ [][NextClient]_vars

----------------------------------------------------------------------------
(* Claims about reply_to_comment, checked under SpecEngine *)

\* The place of an encoding in the fixed order of the cascade
EncodingRank(name) ==
    CASE name = "ADF with mention and link" -> 1
      [] name = "ADF with link only" -> 2
      [] name = "plain text with mention" -> 3
      [] name = "plain comment" -> 4

CallNames(calls) == [k \in 1..Len(calls) |-> calls[k].name]

\* C2: reply_to_comment tries its eligible encodings strictly in the order
\* structured mention+link, structured link-only, plain text with mention,
\* plain text: the k-th call is the k-th eligible attempt, the calls made
\* rise in that order, every call but the last raised, and a call that did
\* not raise is the last call, after which the function has returned true.
C2_CascadeOrder ==
    LET calls == engine.loop.calls
        attempts == engine.loop.attempts
    IN engine.pc \in {"loop", "returned"} =>
        /\ Len(calls) <= Len(attempts)
        /\ \A k \in 1..Len(calls) : calls[k].name = attempts[k].name
        /\ \A j, k \in 1..Len(calls) : j < k => EncodingRank(calls[j].name) < EncodingRank(calls[k].name)
        /\ \A j, k \in 1..Len(attempts) : j < k => EncodingRank(attempts[j].name) < EncodingRank(attempts[k].name)
        /\ \A k \in 1..Len(calls) : k < Len(calls) => calls[k].raised
        /\ \A k \in 1..Len(calls) :
              ~calls[k].raised => k = Len(calls) /\ engine.pc = "returned" /\ engine.loop.result

\* Both structured attempts raised and plain text with mention was accepted.
C2_Witness ==
    /\ engine.pc = "returned"
    /\ engine.loop.result
    /\ CallNames(engine.loop.calls) = <<"ADF with mention and link", "ADF with link only", "plain text with mention">>

\* C3: reply_to_comment returns false if and only if every eligible
\* attempt was made and raised; otherwise it returns true.
C3_FalseIffAllRaised ==
    LET calls == engine.loop.calls
        attempts == engine.loop.attempts
    IN engine.pc = "returned" =>
        /\ ~engine.loop.result <=> (Len(calls) = Len(attempts) /\ \A k \in 1..Len(calls) : calls[k].raised)
        /\ engine.loop.result <=> (\E k \in 1..Len(calls) : ~calls[k].raised)

\* All four attempts raised and false was returned.
C3_Witness ==
    /\ engine.pc = "returned"
    /\ ~engine.loop.result
    /\ Len(engine.loop.calls) = Len(engine.loop.attempts)
    /\ CallNames(engine.loop.calls) = <<"ADF with mention and link", "ADF with link only", "plain text with mention", "plain comment">>

\* The number of calls a raise pattern allows: the place of the first
\* attempt that is accepted, or n when all n raise
ExpectedCalls(n, raises) ==
    IF \E k \in 1..n : ~raises[k]
    THEN CHOOSE k \in 1..n : ~raises[k] /\ \A j \in 1..(k - 1) : raises[j]
    ELSE n

\* C13: the number of add_comment calls one reply_to_comment call makes is
\* the position of the first accepted attempt in its attempts list, or the
\* length of the list when none is accepted: for the list built and every
\* pattern of raising attempts, and for the calls the loop has made when
\* it returns.
C13_CallCount ==
    LET loop == engine.loop
        n == Len(loop.attempts)
    IN /\ engine.pc = "loop" /\ loop.calls = <<>> =>
             \A raises \in [1..n -> BOOLEAN] :
                 Len(run_loop(loop, raises).calls) = ExpectedCalls(n, raises)
       /\ engine.pc = "returned" =>
             Len(loop.calls) = ExpectedCalls(n, [k \in 1..n |-> k > Len(loop.calls) \/ loop.calls[k].raised])
       /\ engine.pc = "returned" /\ loop.result => ~loop.calls[Len(loop.calls)].raised
       /\ engine.pc = "returned" /\ ~loop.result => Len(loop.calls) = n

\* Account id and display name given, both structured attempts raised and
\* plain text with mention was accepted: three calls.
C13_Witness ==
    /\ engine.pc = "returned"
    /\ engine.mention_account_id = <<"acct-1">>
    /\ engine.mention_display_name = <<"Ann">>
    /\ Len(engine.loop.attempts) = 4
    /\ Len(engine.loop.calls) = 3
    /\ engine.loop.calls[1].raised /\ engine.loop.calls[2].raised /\ ~engine.loop.calls[3].raised

\* The names of the attempts in a list
AttemptNames(attempts) == [k \in 1..Len(attempts) |-> attempts[k].name]

\* C14: the attempts list depends only on which mention arguments are
\* given (not None and not empty): ADF with mention and link is in it iff
\* both the account id and the display name are, plain text with mention
\* iff the account id is, ADF with link only and plain comment always.
C14_Eligibility ==
    engine.pc \in {"loop", "returned"} =>
        AttemptNames(engine.loop.attempts) =
            (IF engine.mention_account_id \notin {None, <<>>} /\ engine.mention_display_name \notin {None, <<>>}
             THEN <<"ADF with mention and link">> ELSE <<>>)
            \o <<"ADF with link only">>
            \o (IF engine.mention_account_id \notin {None, <<>>} THEN <<"plain text with mention">> ELSE <<>>)
            \o <<"plain comment">>

\* An account id without a display name: three attempts, none with the
\* mention node.
C14_Witness ==
    /\ engine.pc = "loop"
    /\ engine.mention_account_id = <<"acct-1">>
    /\ engine.mention_display_name = None
    /\ AttemptNames(engine.loop.attempts) = <<"ADF with link only", "plain text with mention", "plain comment">>

\* C22: get_issue, add_comment, search_issues, get_issue_comments and
\* update_issue return to their caller whatever the backend does: when
\* the backend raised they return None, False, [], [] and False, and
\* when it answered they return the issue's summary record, True, the
\* result list, the comment list and True.
C22_NoBackendExceptionPropagates ==
    engine.pc = "returned" =>
        /\ ~engine.propagated
        /\ engine.outcome = "raise" =>
              CASE engine.method \in {"add_comment", "update_issue"} -> engine.result = FALSE
                [] OTHER -> engine.result = <<>>
        /\ engine.outcome = "ok" =>
              CASE engine.method \in {"add_comment", "update_issue"} -> engine.result = TRUE
                [] engine.method = "get_issue" ->
                       /\ Len(engine.result) = 1
                       /\ engine.result[1].key = engine.issue_key
                       /\ engine.result[1].summary = <<"Summary of ">> \o engine.issue_key
                [] engine.method = "search_issues" ->
                       /\ Len(engine.result) = 1
                       /\ engine.result[1].key = <<"PROJ-1">>
                [] engine.method = "get_issue_comments" ->
                       /\ Len(engine.result) = Len(JiraComments(engine.issue_key))
                       /\ \A i \in 1..Len(engine.result) :
                              /\ engine.result[i].id = JiraComments(engine.issue_key)[i].id
                              /\ engine.result[i].author = JiraComments(engine.issue_key)[i].displayName
                              /\ engine.result[i].body = JiraComments(engine.issue_key)[i].body

\* update_issue was called for PROJ-9, which the backend does not have:
\* self.jira.issue raised and the method returned False.
C22_Witness ==
    /\ engine.pc = "returned"
    /\ engine.method = "update_issue"
    /\ engine.issue_key = <<"PROJ-9">>
    /\ engine.outcome = "raise"
    /\ engine.result = FALSE
    /\ ~engine.propagated

\* The last len items of a sequence
suffix_of(s, len) == SubSeq(s, Len(s) - len + 1, Len(s))

\* What an attempt's body says the reply is: the whole plain comment, what
\* follows the mention token of plain text with mention, the last node of
\* an ADF body
ReplyIn(attempt, mention_account_id) ==
    CASE attempt.name = "plain comment" -> attempt.body
      [] attempt.name = "plain text with mention" ->
             SubSeq(attempt.body, Len(mention_account_id) + 3, Len(attempt.body))
      [] OTHER -> attempt.body.content[Len(attempt.body.content)].text

\* C23: reply_to_comment passes the reply text on unchanged: the plain
\* comment is the reply text, the last node of each ADF body is a text
\* node holding it, and plain text with mention is the mention token
\* followed by it; each call is made with the body of its attempt.
C23_ReplyTextVerbatim ==
    engine.pc \in {"loop", "returned"} =>
        /\ \A k \in 1..Len(engine.loop.attempts) :
              LET attempt == engine.loop.attempts[k]
              IN /\ ReplyIn(attempt, engine.mention_account_id) = engine.reply_text
                 /\ attempt.name = "plain text with mention" =>
                       /\ Len(attempt.body) = Len(engine.mention_account_id) + 2 + Len(engine.reply_text)
                       /\ suffix_of(attempt.body, Len(engine.reply_text)) = engine.reply_text
                 /\ attempt.name \in {"ADF with mention and link", "ADF with link only"} =>
                       attempt.body.content[Len(attempt.body.content)].type = "text"
        /\ \A k \in 1..Len(engine.loop.calls) : engine.loop.calls[k].body = engine.loop.attempts[k].body

\* All four encodings of "Fixed now" were sent, the last one accepted.
C23_Witness ==
    /\ engine.pc = "returned"
    /\ engine.reply_text = <<"F", "i", "x", "e", "d", " ", "n", "o", "w">>
    /\ Len(engine.loop.calls) = 4
    /\ engine.loop.calls[3].body = <<"[~accountid:{", "acct-1", "}] ", "F", "i", "x", "e", "d", " ", "n", "o", "w">>
    /\ engine.loop.calls[4].body = engine.reply_text
    /\ engine.loop.result

\* C24: every reply_to_comment call returns, after at least one and at
\* most four add_comment calls, each encoding tried at most once and none
\* tried again after it raised.
C24_Terminates ==
    /\ [](engine.pc \in {"loop", "returned"} =>
             /\ Len(engine.loop.calls) <= 4
             /\ \A j, k \in 1..Len(engine.loop.calls) :
                    j # k => engine.loop.calls[j].name # engine.loop.calls[k].name
             /\ engine.pc = "returned" => Len(engine.loop.calls) >= 1)
    /\ <>(engine.pc = "returned" /\ engine.loop.returned)

\* The first attempt was accepted: one call.
C24_Witness ==
    /\ engine.pc = "returned"
    /\ engine.loop.result
    /\ Len(engine.loop.calls) = 1
    /\ ~engine.loop.calls[1].raised

----------------------------------------------------------------------------
(* Claims about the handlers, checked under Spec *)

\* The step in which request t enters handle_reply_message with a text
\* message of an authorized user
HandlesText(t) ==
    /\ tasks[t].pc = "idle"
    /\ tasks'[t].handler = "handle_reply_message"
    /\ Truthy(tasks'[t].update.text)
    /\ is_authorized(tasks'[t].update.user)

\* The step in which request t, a press of a reply button by an
\* authorized user, runs from the answered query to the prompt or, when
\* nothing is stored, to its return
PressesReply(t) ==
    /\ tasks[t].pc = "bc_answer"
    /\ tasks'[t].pc \in {"bc_prompt", "done"}
    /\ is_authorized(tasks[t].update.user)
    /\ tasks[t].update.data[1] = "reply_"
    /\ Len(tasks[t].update.data) = 4
    /\ tasks[t].update.data[3] = "|"

\* The issue key and the comment id a reply button names
PressedIssue(t) == <<tasks[t].update.data[2]>>

PressedComment(t) == <<tasks[t].update.data[4]>>

\* The backend calls in what a request has sent and called
BackendCalls(trace) == SelectSeq(trace, LAMBDA e : e.kind = "add_comment")

\* C1: of two text messages of one user handled concurrently while the
\* user has one pending reply, at most one consumes it and starts a
\* cascade: a stored reply is consumed at most once, and a message handled
\* after the user's latest stored reply was consumed finds nothing
\* pending, sends nothing, calls nothing and leaves the tracker as it was.
C1_AtMostOneConsumes ==
    [][\A t \in Tasks :
          HandlesText(t) =>
              LET u == tasks'[t].update.user
              IN /\ consumed'[u] <= 1
                 /\ consumed[u] >= 1 =>
                       /\ tasks'[t].pc = "done"
                       /\ tasks'[t].trace = <<>>
                       /\ pending_replies' = pending_replies
                       /\ consumed'[u] = consumed[u]]_vars

\* One message of user 1 is suspended in its cascade, having consumed the
\* pending reply; the other was handled meanwhile and did nothing.
C1_Witness ==
    \E t1, t2 \in Tasks :
        /\ t1 # t2
        /\ tasks[t1].pc = "hrm_status" /\ tasks[t1].outcome = "consumed"
        /\ tasks[t2].handler = "handle_reply_message" /\ tasks[t2].racing
        /\ tasks[t2].update.user = tasks[t1].update.user
        /\ tasks[t2].update.text = <<" ", "o", "k">>
        /\ tasks[t2].pc = "done" /\ tasks[t2].trace = <<>>
        /\ consumed[tasks[t1].update.user] = 1
        /\ ~has_pending(pending_replies, tasks[t1].update.user)

\* C4: when a pending reply that carries both the author's account id and
\* display name is consumed by a text message, the first add_comment call
\* made for it is the ADF body with mention and link, and if that call is
\* accepted it is the only call.
C4_MentionAndLinkFirst ==
    \A t \in Tasks :
        (/\ tasks[t].outcome \in {"replied", "failed"}
         /\ Truthy(tasks[t].pending.original_author_account_id)
         /\ Truthy(tasks[t].pending.original_author)) =>
            LET calls == BackendCalls(tasks[t].trace)
            IN /\ calls # <<>>
               /\ calls[1].name = "ADF with mention and link"
               /\ ~calls[1].raised => Len(calls) = 1

\* C5: after a reply button press that finds its comment the user has a
\* pending reply, and after a text message of the user is handled by
\* handle_reply_message the user has none.
C5_HasAfterPressNotAfterText ==
    [][\A t \in Tasks :
          /\ (PressesReply(t) /\ find_comment(tasks'[t].comments, PressedComment(t)) # <<>>) =>
                has_pending(pending_replies', tasks[t].update.user)
          /\ HandlesText(t) => ~has_pending(pending_replies', tasks'[t].update.user)]_vars

\* A text message has consumed the reply a press had stored.
C5_Witness ==
    \E t \in Tasks :
        /\ tasks[t].outcome = "consumed"
        /\ tasks[t].had_pending
        /\ tasks[t].pending.comment_id = <<"10000">>
        /\ ~has_pending(pending_replies, tasks[t].update.user)

\* C6: the tracker holds at most one pending reply per user, and a reply
\* press that finds its comment leaves the user with exactly the reply it
\* names, whatever was pending for the user before (last write wins); the
\* other users' entries stay as they were.
C6_LastWriteWins ==
    [][/\ DOMAIN pending_replies' \subseteq Users
       /\ \A t \in Tasks :
             (PressesReply(t) /\ find_comment(tasks'[t].comments, PressedComment(t)) # <<>>) =>
                 LET u == tasks[t].update.user
                 IN /\ u \in DOMAIN pending_replies'
                    /\ pending_replies'[u].issue_key = PressedIssue(t)
                    /\ pending_replies'[u].comment_id = PressedComment(t)
                    /\ \A o \in Users \ {u} :
                          /\ o \in DOMAIN pending_replies' <=> o \in DOMAIN pending_replies
                          /\ o \in DOMAIN pending_replies => pending_replies'[o] = pending_replies[o]]_vars

\* A press on comment 20000 has overwritten the reply the user had pending.
C6_Witness ==
    \E t \in Tasks :
        /\ tasks[t].outcome = "stored"
        /\ tasks[t].had_pending
        /\ tasks[t].update.data = <<"reply_", "PROJ-2", "|", "20000">>
        /\ pending_replies[tasks[t].update.user].issue_key = <<"PROJ-2">>
        /\ pending_replies[tasks[t].update.user].comment_id = <<"20000">>

\* C7: a text message, the text "cancel" included, of an authorized user
\* without a pending reply is ignored: nothing is sent, no backend call is
\* made or left to make, and the tracker stays as it was.
C7_NoPendingIgnored ==
    [][\A t \in Tasks :
          (HandlesText(t) /\ ~has_pending(pending_replies, tasks'[t].update.user)) =>
              /\ tasks'[t].trace = <<>>
              /\ tasks'[t].pc = "done"
              /\ pending_replies' = pending_replies]_vars

\* The text "cancel" of user 1, who had nothing pending, every user being
\* allowed; the other user's pending reply stayed in the tracker.
C7_Witness ==
    \E t \in Tasks :
        /\ tasks[t].handler = "handle_reply_message"
        /\ tasks[t].update.text = <<"c", "a", "n", "c", "e", "l">>
        /\ tasks[t].update.user = 1
        /\ allowed_user_ids = {}
        /\ tasks[t].pc = "done" /\ ~tasks[t].had_pending /\ tasks[t].trace = <<>>
        /\ ~has_pending(pending_replies, 1)
        /\ has_pending(pending_replies, 2)

\* The texts of C8: "cancel" and "/cancel", in some letter cases
CancelTexts ==
    { <<"c", "a", "n", "c", "e", "l">>,
      <<"/", "c", "a", "n", "c", "e", "l">>,
      <<"/", "C", "a", "n", "c", "e", "l">> }

\* C8: a text message "cancel" or "/cancel", in any letter case, handled
\* by handle_reply_message while its sender has a pending reply removes
\* that reply, sends the cancellation message and nothing else, and makes
\* no backend call.
C8_CancelRemoves ==
    [][\A t \in Tasks :
          (/\ HandlesText(t)
           /\ tasks'[t].update.text \in CancelTexts
           /\ has_pending(pending_replies, tasks'[t].update.user)) =>
              /\ ~has_pending(pending_replies', tasks'[t].update.user)
              /\ tasks'[t].trace = <<ReplyText(tasks'[t].update, CancelledText)>>
              /\ tasks'[t].pc = "done"]_vars

\* "/Cancel" has cancelled a pending reply.
C8_Witness ==
    \E t \in Tasks :
        /\ tasks[t].handler = "handle_reply_message"
        /\ tasks[t].update.text = <<"/", "C", "a", "n", "c", "e", "l">>
        /\ tasks[t].had_pending
        /\ tasks[t].pc = "done"
        /\ tasks[t].trace = <<ReplyText(tasks[t].update, CancelledText)>>
        /\ ~has_pending(pending_replies, tasks[t].update.user)

\* C9: a user with a pending reply who sends the chat message "/cancel",
\* which Telegram marks as a command, through the registered handlers ends
\* with no pending reply and is sent the cancellation message.
C9_SlashCancelDispatched ==
    [][\A t \in Tasks :
          (/\ tasks[t].pc = "idle"
           /\ tasks'[t].pc # "idle"
           /\ tasks'[t].update.kind = "message"
           /\ tasks'[t].update.text = <<"/", "c", "a", "n", "c", "e", "l">>
           /\ tasks'[t].update.command
           /\ is_authorized(tasks'[t].update.user)
           /\ has_pending(pending_replies, tasks'[t].update.user)) =>
              /\ ~has_pending(pending_replies', tasks'[t].update.user)
              /\ tasks'[t].trace = <<ReplyText(tasks'[t].update, CancelledText)>>]_vars

\* C10: a reply button press whose comment id is not among the comments
\* fetched for the issue, the fetch failing and yielding none included,
\* ends with the message "Comment not found." and leaves the tracker
\* exactly as it was.
C10_NotFoundLeavesTracker ==
    [][\A t \in Tasks :
          (/\ PressesReply(t)
           /\ \A i \in 1..Len(tasks'[t].comments) : tasks'[t].comments[i].id # PressedComment(t)) =>
              /\ tasks'[t].trace = <<Answer(tasks[t].update), EditMessageText(tasks[t].update, CommentNotFoundText)>>
              /\ pending_replies' = pending_replies]_vars

\* A press on comment 10000 of PROJ-2, whose fetched comments hold only
\* 20000, has said "Comment not found." while the user's earlier pending
\* reply stayed in the tracker.
C10_Witness ==
    \E t \in Tasks :
        /\ tasks[t].update.data = <<"reply_", "PROJ-2", "|", "10000">>
        /\ tasks[t].pc = "done"
        /\ tasks[t].comments # <<>>
        /\ tasks[t].trace = <<Answer(tasks[t].update), EditMessageText(tasks[t].update, CommentNotFoundText)>>
        /\ has_pending(pending_replies, tasks[t].update.user)

\* The step in which request t, suspended at the status message, runs its
\* cascade and sends the verdict
RunsCascade(t) == tasks[t].pc = "hrm_status" /\ tasks'[t].pc = "done"

\* C11: the consumed reply is out of the tracker before the first
\* add_comment call of its cascade, and the cascade, accepted or not, does
\* not put it back: after the verdict the user has nothing pending unless
\* a reply press of the user stored a new reply after the consumption.
C11_ClearedBeforeCascade ==
    [][\A t \in Tasks :
          /\ (HandlesText(t) /\ tasks'[t].pc = "hrm_status") =>
                /\ ~has_pending(pending_replies', tasks'[t].update.user)
                /\ BackendCalls(tasks'[t].trace) = <<>>
          /\ RunsCascade(t) =>
                /\ BackendCalls(tasks'[t].trace) # <<>>
                /\ pending_replies' = pending_replies
                /\ consumed[tasks[t].update.user] >= 1 =>
                      ~has_pending(pending_replies', tasks[t].update.user)]_vars

\* Every attempt raised, the failure verdict is out and the user has
\* nothing pending.
C11_Witness ==
    \E t \in Tasks :
        /\ tasks[t].outcome = "failed"
        /\ tasks[t].had_pending
        /\ tasks[t].trace[Len(tasks[t].trace)] = ReplyText(tasks[t].update, ReplyFailedText(tasks[t].pending.issue_key))
        /\ consumed[tasks[t].update.user] = 1
        /\ ~has_pending(pending_replies, tasks[t].update.user)

\* A user outside a non-empty allow-list
Outside(user_id) == allowed_user_ids # {} /\ user_id \notin allowed_user_ids

\* C12: for a user outside a non-empty allow-list a button press and a
\* text message leave the tracker as it was, make no backend call and
\* send only the denial message (the press after its query was answered);
\* such a user never has a pending reply.
C12_DeniedBeforeAnything ==
    [][/\ \A u \in Users : Outside(u) => ~has_pending(pending_replies', u)
       /\ \A t \in Tasks :
             /\ (/\ tasks[t].pc = "idle"
                 /\ tasks'[t].handler = "handle_reply_message"
                 /\ Truthy(tasks'[t].update.text)
                 /\ Outside(tasks'[t].update.user)) =>
                   /\ pending_replies' = pending_replies
                   /\ tasks'[t].pc = "done"
                   /\ tasks'[t].trace = <<ReplyText(tasks'[t].update, NotAuthorizedText)>>
             /\ (tasks[t].pc = "bc_answer" /\ tasks'[t] # tasks[t] /\ Outside(tasks[t].update.user)) =>
                   /\ pending_replies' = pending_replies
                   /\ tasks'[t].pc = "done"
                   /\ tasks'[t].trace = <<Answer(tasks[t].update),
                                          EditMessageText(tasks[t].update, NotAuthorizedText)>>]_vars

\* User 2, outside the allow-list {1}, has pressed a reply button and was
\* denied, while user 1's pending reply stayed in the tracker.
C12_Witness ==
    \E t \in Tasks :
        /\ allowed_user_ids = {1}
        /\ tasks[t].update.user = 2
        /\ tasks[t].update.data = <<"reply_", "PROJ-1", "|", "10000">>
        /\ tasks[t].pc = "done"
        /\ tasks[t].trace = <<Answer(tasks[t].update), EditMessageText(tasks[t].update, NotAuthorizedText)>>
        /\ DOMAIN pending_replies = {1}

\* C15: when the consumed reply has no account id of the original author,
\* its cascade calls add_comment with ADF with link only and then with the
\* plain comment, and with no other encoding.
C15_NoAccountIdCascade ==
    \A t \in Tasks :
        (/\ tasks[t].outcome \in {"replied", "failed"}
         /\ tasks[t].pending.original_author_account_id \in {None, <<>>}) =>
            LET names == CallNames(BackendCalls(tasks[t].trace))
            IN \/ names = <<"ADF with link only">>
               \/ names = <<"ADF with link only", "plain comment">>

\* The chats in which reply buttons are pressed
PressChats == {update.chat : update \in CallbackUpdates}

\* C16: a pending reply is consumed only by a text message sent in the
\* chat in which the reply button was pressed.
C16_SameChatOnly ==
    \A t \in Tasks :
        (tasks[t].handler = "handle_reply_message" /\ tasks[t].outcome \in {"consumed", "replied", "failed"}) =>
            tasks[t].update.chat \in PressChats

\* C18: for each consumed reply the status message comes first, then the
\* add_comment calls of the cascade, then the verdict: while the handler
\* is suspended at the status message nothing else is out, and once it is
\* done every entry between the status message and the verdict is an
\* add_comment call on the reply's issue.
C18_StatusCallsVerdict ==
    \A t \in Tasks :
        LET trace == tasks[t].trace
            status == ReplyText(tasks[t].update, AddingReplyText(tasks[t].pending.issue_key))
        IN /\ tasks[t].pc = "hrm_status" => trace = <<status>>
           /\ tasks[t].outcome \in {"replied", "failed"} =>
                 /\ Len(trace) >= 3
                 /\ trace[1] = status
                 /\ trace[Len(trace)] \in
                        {ReplyText(tasks[t].update, ReplyAddedText(tasks[t].pending.issue_key)),
                         ReplyText(tasks[t].update, ReplyFailedText(tasks[t].pending.issue_key))}
                 /\ \A k \in 2..(Len(trace) - 1) :
                        trace[k].kind = "add_comment" /\ trace[k].issue_key = tasks[t].pending.issue_key

\* Status message, three raising calls, failure verdict.
C18_Witness ==
    \E t \in Tasks :
        /\ tasks[t].outcome = "failed"
        /\ Len(tasks[t].trace) = 5
        /\ tasks[t].trace[1].kind = "reply_text"
        /\ tasks[t].trace[2].kind = "add_comment" /\ tasks[t].trace[4].kind = "add_comment"
        /\ tasks[t].trace[5].kind = "reply_text"

\* The user whose event the step of request t handles
Actor(t) == IF tasks[t].pc = "idle" THEN tasks'[t].update.user ELSE tasks[t].update.user

\* C20: a step taken for one user's event leaves every other user's
\* tracker entry as it was; a consumption takes the sender's own entry,
\* and the cascade calls the backend with the issue and the comment of
\* that entry.
C20_OwnEntryOnly ==
    [][\A t \in Tasks :
          /\ tasks'[t] # tasks[t] =>
                \A o \in Users \ {Actor(t)} :
                    /\ has_pending(pending_replies', o) <=> has_pending(pending_replies, o)
                    /\ has_pending(pending_replies, o) => pending_replies'[o] = pending_replies[o]
          /\ (HandlesText(t) /\ tasks'[t].pc = "hrm_status") =>
                tasks'[t].pending = pending_replies[tasks'[t].update.user]
          /\ RunsCascade(t) =>
                \A k \in 1..Len(tasks'[t].trace) :
                    tasks'[t].trace[k].kind = "add_comment" =>
                        /\ tasks'[t].trace[k].issue_key = tasks[t].pending.issue_key
                        /\ tasks'[t].trace[k].name = "ADF with link only" =>
                              tasks'[t].trace[k].body =
                                  adf_body_with_link(tasks[t].pending.issue_key, tasks[t].pending.comment_id,
                                                     tasks[t].reply_text)]_vars

\* User 1's reply to comment 10000 of PROJ-1 is posted while user 2's
\* pending reply to comment 20000 of PROJ-2 is in the tracker.
C20_Witness ==
    \E t \in Tasks :
        /\ tasks[t].outcome = "replied"
        /\ tasks[t].update.user = 1
        /\ tasks[t].pending.issue_key = <<"PROJ-1">>
        /\ \A k \in 1..Len(tasks[t].trace) :
              tasks[t].trace[k].kind = "add_comment" => tasks[t].trace[k].issue_key = <<"PROJ-1">>
        /\ has_pending(pending_replies, 2)
        /\ pending_replies[2].issue_key = <<"PROJ-2">>
        /\ pending_replies[2].comment_id = <<"20000">>

\* The handlers of the commands, and no handler at all
CommandTasks == {"start_command", "view_command", "comment_command", "search_command", "none"}

\* The buttons other than reply
OtherButtons == {"comments_", "comment_", "view_comment_", "view_"}

\* C19: a pending reply leaves the tracker only in a step in which a text
\* message of its owner enters handle_reply_message, and is replaced only
\* by a reply press of its owner; the commands /start, /view, /comment and
\* /search, the comments, comment, view_comment and view buttons, an update
\* no handler takes (a message without text among them) and every other
\* step (a cascade, a response) leave the tracker as it was.
C19_RemovedOnlyByOwnText ==
    [][/\ \A u \in Users :
             /\ (has_pending(pending_replies, u) /\ ~has_pending(pending_replies', u)) =>
                   \E t \in Tasks : HandlesText(t) /\ tasks'[t].update.user = u
             /\ (has_pending(pending_replies, u) /\ has_pending(pending_replies', u)
                 /\ pending_replies'[u] # pending_replies[u]) =>
                   \E t \in Tasks : PressesReply(t) /\ tasks[t].update.user = u
       /\ \A t \in Tasks :
             /\ (tasks[t].pc = "idle" /\ tasks'[t].pc # "idle" /\ tasks'[t].handler \in CommandTasks) =>
                   pending_replies' = pending_replies
             /\ (tasks[t].pc = "bc_answer" /\ tasks'[t] # tasks[t] /\ tasks[t].update.data[1] \in OtherButtons) =>
                   pending_replies' = pending_replies
             /\ (tasks[t].pc \in {"hrm_status", "bc_prompt", "done"} /\ tasks'[t] # tasks[t]) =>
                   pending_replies' = pending_replies]_vars

\* With a reply to comment 20000 pending, its owner has listed the
\* comments of PROJ-1; the reply is still pending.
C19_Witness ==
    \E t \in Tasks :
        /\ tasks[t].handler = "button_callback"
        /\ tasks[t].update.data = <<"comments_", "PROJ-1">>
        /\ tasks[t].pc = "done"
        /\ Len(tasks[t].comments) = 2
        /\ has_pending(pending_replies, tasks[t].update.user)
        /\ pending_replies[tasks[t].update.user].comment_id = <<"20000">>

\* The verdicts among what a request has sent
Verdicts(task) ==
    SelectSeq(task.trace,
              LAMBDA e : /\ e.kind = "reply_text"
                         /\ e.text \in {ReplyAddedText(task.pending.issue_key),
                                        ReplyFailedText(task.pending.issue_key)})

\* A reply was consumed by a message that was not a cancel word, and its
\* handler waits at the status message.
Consumed(t) == tasks[t].pc = "hrm_status"

\* The handler has sent exactly one verdict: the success message if an
\* add_comment call was accepted, the failure message if each one raised.
VerdictSent(t) ==
    LET calls == BackendCalls(tasks[t].trace)
        accepted == \E k \in 1..Len(calls) : ~calls[k].raised
    IN /\ tasks[t].pc = "done"
       /\ Verdicts(tasks[t]) =
              <<ReplyText(tasks[t].update,
                          IF accepted THEN ReplyAddedText(tasks[t].pending.issue_key)
                          ELSE ReplyFailedText(tasks[t].pending.issue_key))>>

C21_AuthorizedIff ==
    /\ \A u \in Users : is_authorized(u) <=> (allowed_user_ids = {} \/ u \in allowed_user_ids)
    /\ \A t \in Tasks :
          (tasks[t].pc \notin {"idle", "bc_answer"} /\ tasks[t].outcome \notin {"no_text", "no_handler"}) =>
             (tasks[t].outcome = "denied" <=>
                 (allowed_user_ids # {} /\ tasks[t].update.user \notin allowed_user_ids))

\* With the allow-list {1}, user 2 was denied at /start, after user 1 was
\* admitted and started a reply.
C21_Witness ==
    /\ allowed_user_ids = {1}
    /\ is_authorized(1) /\ ~is_authorized(2)
    /\ has_pending(pending_replies, 1)
    /\ \E t \in Tasks :
          /\ tasks[t].handler = "start_command"
          /\ tasks[t].update.user = 2
          /\ tasks[t].outcome = "denied"
          /\ tasks[t].trace = <<ReplyText(tasks[t].update, NotAuthorizedText)>>

\* The comments of a fetch that carry the id, the author name and the
\* account id an entry of the tracker holds
FetchedFor(comments, pending) ==
    {i \in 1..Len(comments) :
        /\ comments[i].id = pending.comment_id
        /\ comments[i].author = pending.original_author
        /\ comments[i].author_account_id = pending.original_author_account_id}

\* C25: an entry enters the tracker, or changes, only in the step of a
\* reply press of its user for the entry's issue and comment id, whose
\* fetch of the issue's comments holds a comment with that id, and the
\* entry's author name and account id (None when the comment has none) are
\* that comment's; so every entry of the tracker names a comment of its
\* issue with its author data.
C25_StoredFromFetch ==
    [][\A u \in Users :
          /\ (has_pending(pending_replies', u)
                 /\ (has_pending(pending_replies, u) => pending_replies'[u] # pending_replies[u])) =>
                \E t \in Tasks :
                    /\ PressesReply(t)
                    /\ tasks[t].update.user = u
                    /\ pending_replies'[u].issue_key = PressedIssue(t)
                    /\ pending_replies'[u].comment_id = PressedComment(t)
                    /\ tasks'[t].comments = get_issue_comments(PressedIssue(t), "ok")
                    /\ FetchedFor(tasks'[t].comments, pending_replies'[u]) # {}
          /\ has_pending(pending_replies', u) =>
                FetchedFor(get_issue_comments(pending_replies'[u].issue_key, "ok"), pending_replies'[u]) # {}]_vars

\* User 1's press on Bob's comment 20000 of PROJ-2, which has no account
\* id, has stored the entry with the fetched author and no account id.
C25_Witness ==
    \E t \in Tasks :
        /\ tasks[t].pc = "done"
        /\ tasks[t].outcome = "stored"
        /\ tasks[t].update.user = 1
        /\ tasks[t].update.data = <<"reply_", "PROJ-2", "|", "20000">>
        /\ Len(tasks[t].comments) >= 1
        /\ has_pending(pending_replies, 1)
        /\ pending_replies[1].issue_key = <<"PROJ-2">>
        /\ pending_replies[1].comment_id = <<"20000">>
        /\ pending_replies[1].original_author = <<"Bob">>
        /\ pending_replies[1].original_author_account_id = None

\* C26: in a cascade, a call whose body carries a mention addresses the
\* account id of the consumed reply's original author: the plain text
\* with mention is "[~accountid:{" account id "}] " and the reply text,
\* and the mention node of ADF with mention and link holds that account
\* id and "@" with the original author's name.
C26_MentionAddressesAuthor ==
    \A t \in Tasks :
        tasks[t].outcome \in {"replied", "failed"} =>
            LET pending == tasks[t].pending
                calls == BackendCalls(tasks[t].trace)
            IN \A k \in 1..Len(calls) :
                  /\ calls[k].name = "plain text with mention" =>
                        calls[k].body = plain_text_with_mention(tasks[t].reply_text,
                                                                pending.original_author_account_id)
                  /\ calls[k].name = "ADF with mention and link" =>
                        \E n \in 1..Len(calls[k].body.content) :
                            calls[k].body.content[n] =
                                MentionNode(pending.original_author_account_id,
                                            <<"@">> \o pending.original_author)

\* C28: a cascade uses the entry its handler read when the text message
\* was received: the entry is held unchanged while the handler is
\* suspended, the cascade's calls name its issue, link to its comment and
\* use its author data, and the verdict names its issue; a reply press
\* of the same user that stores an entry meanwhile leaves the suspended
\* handler as it was, and the cascade leaves the tracker, with that entry,
\* as it finds it.
C28_CascadeUsesOwnIntent ==
    [][\A t \in Tasks :
          /\ (HandlesText(t) /\ tasks'[t].pc = "hrm_status") =>
                tasks'[t].pending = pending_replies[tasks'[t].update.user]
          /\ tasks[t].pc = "hrm_status" =>
                /\ tasks'[t].pending = tasks[t].pending
                /\ tasks'[t].reply_text = tasks[t].reply_text
                /\ \A o \in Tasks \ {t} :
                      (PressesReply(o) /\ tasks[o].update.user = tasks[t].update.user) =>
                          tasks'[t] = tasks[t]
          /\ RunsCascade(t) =>
                LET pending == tasks[t].pending
                    calls == BackendCalls(tasks'[t].trace)
                    verdict == tasks'[t].trace[Len(tasks'[t].trace)]
                IN /\ pending_replies' = pending_replies
                   /\ calls # <<>>
                   /\ verdict \in {ReplyText(tasks[t].update, ReplyAddedText(pending.issue_key)),
                                    ReplyText(tasks[t].update, ReplyFailedText(pending.issue_key))}
                   /\ \A k \in 1..Len(calls) :
                         /\ calls[k].issue_key = pending.issue_key
                         /\ calls[k].name = "ADF with link only" =>
                               calls[k].body = adf_body_with_link(pending.issue_key, pending.comment_id,
                                                                  tasks[t].reply_text)
                         /\ calls[k].name = "plain text with mention" =>
                               calls[k].body =
                                   plain_text_with_mention(tasks[t].reply_text,
                                       mention_text(pending.original_author_account_id,
                                                    pending.original_author))]_vars

\* The cascade for Ann's comment 10000 of PROJ-1 has finished while the
\* entry for Bob's comment 20000 of PROJ-2, which the same user stored
\* during the cascade, is still in the tracker.
C28_Witness ==
    \E t \in Tasks :
        /\ tasks[t].pc = "done"
        /\ tasks[t].outcome \in {"replied", "failed"}
        /\ tasks[t].pending.issue_key = <<"PROJ-1">>
        /\ tasks[t].pending.comment_id = <<"10000">>
        /\ BackendCalls(tasks[t].trace)[1].issue_key = <<"PROJ-1">>
        /\ consumed[tasks[t].update.user] = 0
        /\ has_pending(pending_replies, tasks[t].update.user)
        /\ pending_replies[tasks[t].update.user].issue_key = <<"PROJ-2">>
        /\ pending_replies[tasks[t].update.user].comment_id = <<"20000">>

\* The press of a button of a listing, as button_callback's reply_ branch
\* would handle it now
PressOf(t, button) ==
    button_callback_reply(pending_replies, [tasks[t] EXCEPT !.update.data = button.callback_data], "ok")

\* C29: a comments listing shows the fetched comments in descending
\* order of created, and the first button of the i-th row is "Reply to
\* comment i" with the data reply_, the listed issue key, "|" and the id
\* of the i-th comment shown; pressing it stores an entry for that issue
\* and that comment.
C29_ListingOrderAndButtons ==
    \A t \in Tasks :
        (tasks[t].handler = "button_callback" /\ tasks[t].outcome = "listed") =>
            LET issue_key == <<tasks[t].update.data[2]>>
                shown == tasks[t].comments
                fetched == get_issue_comments(issue_key, "ok")
                listing == tasks[t].trace[Len(tasks[t].trace)]
                user_id == tasks[t].update.user
            IN /\ Len(shown) = Len(fetched)
               /\ {shown[i] : i \in 1..Len(shown)} = {fetched[i] : i \in 1..Len(fetched)}
               /\ \A i, j \in 1..Len(shown) : i < j => ~str_less(shown[i].created, shown[j].created)
               /\ listing.text = <<"Comments for ">> \o issue_key \o <<" (", ToString(Len(shown)), " total):">>
                                 \o CommentsListing(shown, 1)
               /\ Len(listing.reply_markup) = Len(shown) + 1
               /\ \A i \in 1..Len(shown) :
                     LET button == listing.reply_markup[i][1]
                     IN /\ button.text = <<"Reply to comment ", ToString(i)>>
                        /\ button.callback_data = <<"reply_">> \o issue_key \o <<"|">> \o shown[i].id
                        /\ PressOf(t, button).task.outcome = "stored"
                        /\ PressOf(t, button).pending_replies[user_id].issue_key = issue_key
                        /\ PressOf(t, button).pending_replies[user_id].comment_id = shown[i].id
                        /\ PressOf(t, button).pending_replies[user_id].original_author = shown[i].author

\* PROJ-1 was listed: comment 10001 of 2024-01-03, fetched second, is
\* shown first and button 1 carries its id; button 2 carries 10000.
C29_Witness ==
    \E t \in Tasks :
        /\ tasks[t].pc = "done"
        /\ tasks[t].outcome = "listed"
        /\ tasks[t].update.data = <<"comments_", "PROJ-1">>
        /\ tasks[t].comments[1].id = <<"10001">>
        /\ tasks[t].comments[2].id = <<"10000">>
        /\ tasks[t].trace[Len(tasks[t].trace)].reply_markup[1][1].callback_data = <<"reply_", "PROJ-1", "|", "10001">>
        /\ tasks[t].trace[Len(tasks[t].trace)].reply_markup[2][1].callback_data = <<"reply_", "PROJ-1", "|", "10000">>

\* The prompt of a reply press is among what the request has sent.
Prompted(task) ==
    /\ task.handler = "button_callback"
    /\ task.outcome = "stored"
    /\ \E k \in 1..Len(task.trace) : task.trace[k] = ReplyPrompt(task)

\* C27: a reply press that finds its comment stores the entry in a step
\* in which no prompt has been sent yet; the prompt is sent only by a
\* later step of that press, which leaves the tracker as it is; and an
\* entry leaves the tracker only when a text message of its user is
\* handled and consumes or cancels it. So whenever a prompt has been
\* shown, the entry of its press was stored before, and it is still in
\* the tracker, or was overwritten by a later press of the user, unless
\* a text of the user consumed or cancelled it.
C27_StoredBeforePrompt ==
    [][/\ \A t \in Tasks :
             /\ (PressesReply(t) /\ tasks'[t].outcome = "stored") =>
                   /\ tasks'[t].pc = "bc_prompt"
                   /\ ~Prompted(tasks'[t])
                   /\ has_pending(pending_replies', tasks[t].update.user)
                   /\ pending_replies'[tasks[t].update.user].issue_key = PressedIssue(t)
                   /\ pending_replies'[tasks[t].update.user].comment_id = PressedComment(t)
             /\ (Prompted(tasks'[t]) /\ ~Prompted(tasks[t])) =>
                   /\ tasks[t].pc = "bc_prompt"
                   /\ tasks[t].outcome = "stored"
                   /\ tasks'[t].pc = "done"
                   /\ pending_replies' = pending_replies
       /\ \A u \in Users :
             (has_pending(pending_replies, u) /\ ~has_pending(pending_replies', u)) =>
                 \E o \in Tasks :
                     /\ HandlesText(o)
                     /\ tasks'[o].update.user = u
                     /\ tasks'[o].outcome \in {"consumed", "cancelled"}]_vars

\* The prompt for the press on comment 10000 of PROJ-1 has been shown and
\* the entry the press stored is in the tracker.
C27_Witness ==
    \E t \in Tasks :
        /\ tasks[t].pc = "done"
        /\ Prompted(tasks[t])
        /\ tasks[t].update.data = <<"reply_", "PROJ-1", "|", "10000">>
        /\ tasks[t].trace = <<Answer(tasks[t].update),
                               EditMessageText(tasks[t].update, ReplyPromptText(<<"PROJ-1">>, <<"Ann">>))>>
        /\ has_pending(pending_replies, tasks[t].update.user)
        /\ pending_replies[tasks[t].update.user].comment_id = <<"10000">>

\* C30: a request that failed ("Comment not found.", a cascade in which
\* every attempt raised, an exception answered with 500 or handed to
\* error_handler) is answered and frees its slot; a request in flight
\* can always go on, or waits only for the answer of one that is over;
\* and once a failure was answered a free slot takes a reply press and a
\* text message.
C30_ServiceGoesOn ==
    /\ [](\A t \in Tasks :
             /\ tasks[t].pc # "idle" =>
                   \/ ENABLED ServiceRespond(t)
                   \/ ENABLED ServiceStore(t)
                   \/ ENABLED ButtonPrompt(t)
                   \/ ENABLED ReplyCascade(t)
                   \/ \E o \in Tasks : ENABLED ServiceRespond(o)
             /\ (engine.stage # "serving" /\ Idle(t)) =>
                   /\ ENABLED ServicePress(t)
                   /\ ENABLED ServiceText(t))
    /\ \A t \in Tasks :
          (tasks[t].outcome \in ServiceFailures) ~> (tasks[t].pc = "idle")

\* After a cascade in which every attempt raised was answered, a reply
\* press was received and stored its entry, and a text message of its
\* user consumed the entry; the cascade of that message is accepted.
C30_Witness ==
    /\ engine.stage = "consumed"
    /\ engine.kind = "failed"
    /\ \E t \in Tasks :
          /\ tasks[t].update.user = engine.user
          /\ tasks[t].outcome = "replied"
          /\ tasks[t].pending.comment_id = <<"10000">>

====
